---------------------------- MODULE Spec2Model ----------------------------
(***************************************************************************)
(* Notification delivery and retry engine of the payment gateway:          *)
(* NotificationRouter.route_notification, the webhook and Telegram         *)
(* delivery services with their retry processors, the delivery ledger      *)
(* (table webhook_deliveries behind database/db.py) and the Telegram       *)
(* sliding-window rate limiter.                                            *)
(*                                                                         *)
(* Time in the delivery specification is counted in minutes (the unit of   *)
(* the retry delays); time in the rate-limiter specification is counted    *)
(* in seconds (the unit of RATE_PERIOD).                                   *)
(***************************************************************************)
EXTENDS Integers, Sequences, FiniteSets, TLC

\* ------------------------------------------------------------------------
\* Bounds of the model
\* ------------------------------------------------------------------------
\* last instant (minutes) the clock may reach
MaxTime == 83
\* number of route_notification calls issued in one behaviour
MaxRoutes == 3
\* number of coroutines that may run route_notification concurrently
NumTasks == 2

\* clock ticks per second in the rate-limiter specification
TicksPerSecond == 2
\* last tick the rate-limiter clock may reach
MaxClock == 2
\* number of _send_message calls issued in one behaviour
MaxSends == 22

\* longest list of events handed to notify_multiple
MaxEvents == 21

\* calls of start() on one transport service
MaxStarts == 2

\* ------------------------------------------------------------------------
\* Program constants
\* ------------------------------------------------------------------------
\* config.webhook.retry_delays, minutes (WEBHOOK_RETRY_DELAYS default)
retry_delays == <<1, 5, 15, 60>>
\* "Max 3 retries for Telegram"
TelegramMaxRetries == 3
\* minutes per retry step of the Telegram retry policy
TelegramRetryStep == 5
\* delay after a failed live Telegram send, minutes
TelegramFirstDelay == 1

\* TelegramService.RATE_LIMIT: sends per window
RATE_LIMIT == 20
\* TelegramService.RATE_PERIOD: length of the window, seconds
RATE_PERIOD == 1

\* NotificationRouter.notify_multiple: batch_size
batch_size == 10

\* SQL NULL / Python None for integer-valued columns
NULL == -1

\* ------------------------------------------------------------------------
\* Events and the merchant directory
\* ------------------------------------------------------------------------
\* Three payment events; get_event_id() is injective on them, and each event
\* names its merchant, so the ledger key (event_id, merchant_id) is
\* determined by the event.
Events == {"e1", "e2", "e3"}

merchant_id(e) == IF e = "e1" THEN "mw" ELSE IF e = "e2" THEN "mt" ELSE "mx"

\* rows of table merchants (read-only for the engine)
MerchantRows ==
  [ mw |-> [ notification_type |-> "webhook", webhook_url |-> "url",
             webhook_secret |-> "secret", telegram_chat_id |-> "",
             is_active |-> TRUE ],
    mt |-> [ notification_type |-> "telegram", webhook_url |-> "",
             webhook_secret |-> "", telegram_chat_id |-> "chat",
             is_active |-> TRUE ] ]

Kinds == {"webhook", "telegram"}
Tasks == 1..NumTasks

\* one row of table merchants; "" is a missing (NULL or empty) column
MerchantRow(k, u, s, c, a) ==
  [ notification_type |-> k, webhook_url |-> u, webhook_secret |-> s,
    telegram_chat_id |-> c, is_active |-> a ]

\* Rows the merchant API can leave behind for the third merchant "mx".
\* deactivate_merchant clears is_active; update_merchant stores the
\* notification_type and the webhook_url of the request body as they come
\* (any kind, any URL that is not empty) and keeps the other columns, so a
\* row can name a kind that is no NotificationType or carry a URL that is
\* not an HTTP(S) URL; rows written past the API can also lack the URL,
\* the secret or the chat id of their kind.
MxRows ==
  { MerchantRow("webhook", "url", "secret", "", FALSE),
    MerchantRow("sms", "url", "secret", "", FALSE),
    MerchantRow("sms", "url", "secret", "", TRUE),
    MerchantRow("webhook", "ftp", "secret", "", TRUE),
    MerchantRow("webhook", "", "secret", "", TRUE),
    MerchantRow("webhook", "url", "", "", TRUE),
    MerchantRow("telegram", "", "", "", TRUE) }

\* Merchant.validate, run by Merchant.from_dict through __post_init__:
\* FALSE where the constructor raises ValueError.  (The ids of the model
\* are well-formed addresses.)
Valid(m) ==
  /\ m.notification_type \in Kinds
  /\ m.notification_type = "webhook" =>
       m.webhook_url # "" /\ m.webhook_url # "ftp"
  /\ m.notification_type = "telegram" => m.telegram_chat_id # ""

\* the merchant directories of the model: "mw" and "mt" registered and
\* well-formed, "mx" not registered or registered with one of MxRows
Directories ==
  {MerchantRows} \cup
  { [ m \in {"mw", "mt", "mx"} |-> IF m = "mx" THEN r ELSE MerchantRows[m] ] :
      r \in MxRows }

VARIABLES
  is_postgres,   \* Database._is_postgres
  source,        \* the events the event source delivers in this run
  now,           \* datetime.utcnow(), minutes
  merchants,     \* table merchants
  ledger,        \* table webhook_deliveries, keyed by event (unique key)
  next_id,       \* next value of the id sequence / rowid
  task,          \* the live route_notification coroutines
  sched,         \* the two retry processors
  stats,         \* NotificationRouter._stats
  calls,         \* history: transport calls made, per event, live and retry
  succ_writes,   \* history: writes of success = TRUE, per event
  done_ok,       \* history: a live route returned with a recorded success
  chain,         \* history: failed attempts since (and with) the last live write
  last,          \* history: the operation performed by the last step
  clock,         \* rate limiter: asyncio loop time, seconds
  last_send_times, \* TelegramService._last_send_times
  waiters,       \* rate limiter: coroutines asleep inside _apply_rate_limit
  sent,          \* history: sends that proceeded to the bot API, per second
  arrivals,      \* history: number of _send_message calls issued
  events,        \* notify_multiple: the list of events it was given
  batch_i,       \* notify_multiple: the loop index i
  bpc,           \* notify_multiple: where the coroutine stands
  started,       \* history: positions whose route_notification has started
  completed,     \* history: positions whose route_notification has ended
  results,       \* notify_multiple: the list results
  pauses,        \* history: number of asyncio.sleep(0.5) calls made
  payload,       \* signing: the WebhookPayload of the event
  msecret,       \* signing: webhook_secret of the merchant in the directory
  murl,          \* signing: webhook_url of the merchant in the directory
  stored,        \* signing: webhook_deliveries.payload of the record
  held,          \* signing: rows of a sweep's snapshot not yet retried
  request,       \* signing: the last webhook request sent
  check,         \* signing: the last verify_signature call and its result
  call,          \* a function of the models or services and its arguments
  returned,      \* what the call returned or raised
  service,       \* lifecycle: _running and _session of one transport service
  loops          \* lifecycle: the _retry_processor tasks start() has created

dvars == <<is_postgres, source, now, merchants, ledger, next_id, task, sched, stats,
           calls, succ_writes, done_ok, chain, last>>
rvars == <<clock, last_send_times, waiters, sent, arrivals>>
bvars == <<events, batch_i, bpc, started, completed, results, pauses>>
svars == <<payload, msecret, murl, stored, held, request, check>>
pvars == <<call, returned>>
lvars == <<service, loops>>
vars == <<dvars, rvars, bvars, svars, pvars, lvars>>

\* ------------------------------------------------------------------------
\* Ledger (database/db.py)
\* ------------------------------------------------------------------------
HasRecord(l, e) == e \in DOMAIN l

\* a dedup check that looks for a failed record instead of a successful one
check_event_processed_Failed(l, e) == HasRecord(l, e) /\ ~l[e].success

\* Database.check_event_processed
check_event_processed(l, e) == HasRecord(l, e) /\ l[e].success

\* one row of webhook_deliveries
NewRow(id, method, success, code, body, rc, nxt) ==
  [ id |-> id, delivery_method |-> method, payload |-> "payload",
    success |-> success, response_code |-> code, response_body |-> body,
    retry_count |-> rc, next_retry_at |-> nxt ]

\* a log_delivery that inserts but never updates (ON CONFLICT DO NOTHING)
log_delivery_InsertOnly(l, pg, id, e, method, success, code, body, rc, nxt) ==
  IF HasRecord(l, e)
    THEN l
    ELSE [x \in DOMAIN l \cup {e} |->
            IF x = e THEN NewRow(id, method, success, code, body, rc, nxt)
                     ELSE l[x]]

\* Database.log_delivery: upsert on the unique key (event_id, merchant_id).
\* PostgreSQL: ON CONFLICT DO UPDATE rewrites success, the response, the
\* retry count and the retry time and keeps the row (id, delivery_method,
\* payload).  SQLite: INSERT OR REPLACE deletes the row and inserts a new
\* one under a new rowid.
log_delivery(l, pg, id, e, method, success, code, body, rc, nxt) ==
  IF pg /\ HasRecord(l, e)
    THEN [l EXCEPT ![e] = [@ EXCEPT !.success = success,
                                    !.response_code = code,
                                    !.response_body = body,
                                    !.retry_count = rc,
                                    !.next_retry_at = nxt]]
    ELSE [x \in DOMAIN l \cup {e} |->
            IF x = e THEN NewRow(id, method, success, code, body, rc, nxt)
                     ELSE l[x]]

\* Database.mark_delivery_success: UPDATE ... WHERE id = delivery_id
mark_delivery_success(l, id) ==
  [x \in DOMAIN l |->
     IF l[x].id = id
       THEN [l[x] EXCEPT !.success = TRUE, !.next_retry_at = NULL]
       ELSE l[x]]

\* an update without its WHERE clause
update_delivery_retry_EveryRow(l, id, rc, nxt, code, body) ==
  [x \in DOMAIN l |->
     [l[x] EXCEPT !.retry_count = rc, !.next_retry_at = nxt,
                  !.response_code = code, !.response_body = body]]

\* Database.update_delivery_retry: UPDATE ... WHERE id = delivery_id
update_delivery_retry(l, id, rc, nxt, code, body) ==
  [x \in DOMAIN l |->
     IF l[x].id = id
       THEN [l[x] EXCEPT !.retry_count = rc, !.next_retry_at = nxt,
                         !.response_code = code, !.response_body = body]
       ELSE l[x]]

\* a query that selects the rows whose retry time has not come yet
PendingRows_NotYetDue(l, mrows, t) ==
  { [ id |-> l[e].id, event |-> e,
      delivery_method |-> l[e].delivery_method,
      success |-> l[e].success,
      retry_count |-> l[e].retry_count,
      next_retry_at |-> l[e].next_retry_at,
      payload |-> l[e].payload,
      webhook_url |-> mrows[merchant_id(e)].webhook_url,
      webhook_secret |-> mrows[merchant_id(e)].webhook_secret,
      telegram_chat_id |-> mrows[merchant_id(e)].telegram_chat_id ] :
    e \in { x \in DOMAIN l : /\ merchant_id(x) \in DOMAIN mrows
                             /\ ~l[x].success
                             /\ l[x].next_retry_at # NULL
                             /\ l[x].next_retry_at > t } }

\* a query that leaves out the records of inactive merchants
PendingRows_ActiveOnly(l, mrows, t) ==
  { [ id |-> l[e].id, event |-> e,
      delivery_method |-> l[e].delivery_method,
      success |-> l[e].success,
      retry_count |-> l[e].retry_count,
      next_retry_at |-> l[e].next_retry_at,
      payload |-> l[e].payload,
      webhook_url |-> mrows[merchant_id(e)].webhook_url,
      webhook_secret |-> mrows[merchant_id(e)].webhook_secret,
      telegram_chat_id |-> mrows[merchant_id(e)].telegram_chat_id ] :
    e \in { x \in DOMAIN l : /\ merchant_id(x) \in DOMAIN mrows
                             /\ mrows[merchant_id(x)].is_active
                             /\ ~l[x].success
                             /\ l[x].next_retry_at # NULL
                             /\ l[x].next_retry_at <= t } }

\* the rows Database.get_pending_retries selects at instant t, each joined
\* with its merchant row
PendingRows(l, mrows, t) ==
  { [ id |-> l[e].id, event |-> e,
      delivery_method |-> l[e].delivery_method,
      success |-> l[e].success,
      retry_count |-> l[e].retry_count,
      next_retry_at |-> l[e].next_retry_at,
      payload |-> l[e].payload,
      webhook_url |-> mrows[merchant_id(e)].webhook_url,
      webhook_secret |-> mrows[merchant_id(e)].webhook_secret,
      telegram_chat_id |-> mrows[merchant_id(e)].telegram_chat_id ] :
    e \in { x \in DOMAIN l : /\ merchant_id(x) \in DOMAIN mrows
                             /\ ~l[x].success
                             /\ l[x].next_retry_at # NULL
                             /\ l[x].next_retry_at <= t } }

\* Database.get_pending_retries: the possible results, ORDER BY next_retry_at
\* (rows with equal retry times come in either order)
get_pending_retries(l, mrows, t) ==
  LET S == PendingRows(l, mrows, t)
      n == Cardinality(S)
  IN { q \in [1..n -> S] :
         /\ \A i, j \in 1..n : i # j => q[i] # q[j]
         /\ \A i, j \in 1..n : i < j => q[i].next_retry_at <= q[j].next_retry_at }

\* ------------------------------------------------------------------------
\* Transport outcomes
\* ------------------------------------------------------------------------
\* a 2xx response / ok flag, a non-success response, no response at all
Outcomes == {"ok", "http_error", "network_error"}

\* WebhookService._deliver / TelegramService._send_message: the result
Success(o) == o = "ok"
ResponseCode(o) ==
  IF o = "ok" THEN 200 ELSE IF o = "http_error" THEN 500 ELSE NULL
ResponseBody(o) ==
  IF o = "ok" THEN "ok" ELSE IF o = "http_error" THEN "error" ELSE "exception"

\* a transport whose network errors are not caught but raised
LiveResult_Propagating(o) ==
  IF o = "ok" THEN "ok" ELSE IF o = "http_error" THEN "fail" ELSE "raise"

\* send_notification: what the live call returns, (True, None) or
\* (False, message); _deliver and _send_message turn every exception of the
\* request into a failed result
LiveResult(o) == IF Success(o) THEN "ok" ELSE "fail"

\* ------------------------------------------------------------------------
\* Retry policies
\* ------------------------------------------------------------------------
\* WebhookService.send_notification: retry time after the live attempt of
\* a service whose self.retry_delays is delays
next_retry(delays, success, t) ==
  IF ~success /\ Len(delays) > 0 THEN t + delays[1] ELSE NULL

\* WebhookService.send_notification: retry time after the live attempt
WebhookFirstRetry(success, t) == next_retry(retry_delays, success, t)

\* a retry rule that gives up one retry early
WebhookNextRetry_OneEarly(new_retry_count, t) ==
  IF new_retry_count + 1 < Len(retry_delays)
    THEN t + retry_delays[new_retry_count + 1]
    ELSE NULL

\* WebhookService._retry_delivery: retry time after a failed retry
\* (retry_delays is 0-indexed in the source)
WebhookNextRetry(new_retry_count, t) ==
  IF new_retry_count < Len(retry_delays)
    THEN t + retry_delays[new_retry_count + 1]
    ELSE NULL

\* TelegramService.send_notification: retry time after the live attempt
TelegramFirstRetry(success, t) ==
  IF ~success THEN t + TelegramFirstDelay ELSE NULL

\* a retry rule that counts the step from the retry count before the attempt
TelegramNextRetry_StepBefore(new_retry_count, t) ==
  IF new_retry_count < TelegramMaxRetries
    THEN t + TelegramRetryStep * (new_retry_count - 1)
    ELSE NULL

\* TelegramService._retry_delivery: retry time after a failed retry
TelegramNextRetry(new_retry_count, t) ==
  IF new_retry_count < TelegramMaxRetries
    THEN t + TelegramRetryStep * new_retry_count
    ELSE NULL

\* ------------------------------------------------------------------------
\* Webhook payloads and signatures (models/payment.py)
\* ------------------------------------------------------------------------
\* A Python dict is a sequence of members [k, v] in insertion order, and a
\* JSON text is the sequence of members in the order json.dumps wrote them
\* (separators are the compact ones everywhere).  A value v is a string
\* (s), an ISO date and time (s, its fraction f and the suffix z), an
\* object (o) or a hex digest (h).  An HMAC-SHA256 digest is the pair of
\* key and message it was computed from: distinct pairs give distinct
\* digests (no collisions).
NoDigest == [ secret |-> "", msg |-> << >> ]

Atom(x) == [ s |-> x, f |-> "", z |-> "", o |-> << >>, h |-> NoDigest ]

Object(members) == [ s |-> "", f |-> "", z |-> "", o |-> members, h |-> NoDigest ]

\* a signature in JSON: null for None, the hex digest otherwise
SignatureValue(sig) ==
  IF sig = NoDigest THEN Atom("null")
                    ELSE [ s |-> "hex", f |-> "", z |-> "", o |-> << >>, h |-> sig ]

\* datetime.isoformat() + 'Z': the fraction is written only when the
\* microseconds are not zero
IsoZ(dt) == [ s |-> dt.date, f |-> IF dt.us = "0" THEN "" ELSE dt.us,
              z |-> "Z", o |-> << >>, h |-> NoDigest ]

\* datetime.fromisoformat(text.rstrip('Z'))
FromIsoZ(v) == [ date |-> v.s, us |-> IF v.f = "" THEN "0" ELSE v.f ]

\* the key names of a payload in lexicographic order
SortedKeyNames ==
  << "amount", "data", "event_id", "event_type", "merchant_id", "signature",
     "timestamp" >>

KeyRank(k) == CHOOSE i \in 1..Len(SortedKeyNames) : SortedKeyNames[i] = k

\* the members of one object ordered by key
SortMembers(d) ==
  [ i \in 1..Len(d) |->
      d[CHOOSE j \in 1..Len(d) :
          Cardinality({ x \in 1..Len(d) : KeyRank(d[x].k) < KeyRank(d[j].k) }) = i - 1] ]

\* json.dumps(d, separators=(',', ':'), sort_keys=...): sort_keys orders
\* the members of the object and of the objects nested in it
dumps(d, sort_keys) ==
  IF sort_keys
    THEN SortMembers([ i \in 1..Len(d) |->
                         [ k |-> d[i].k,
                           v |-> [d[i].v EXCEPT !.o = SortMembers(@)] ] ])
    ELSE d

\* json.loads
loads(text) == text

\* dict.pop(key, None)
pop(d, key) == SelectSeq(d, LAMBDA m : m.k # key)

\* d[key]
Get(d, key) == d[CHOOSE i \in 1..Len(d) : d[i].k = key].v

\* hmac.new(secret, message, hashlib.sha256).hexdigest()
hmac_sha256(secret, message) == [ secret |-> secret, msg |-> message ]

\* WebhookPayload.to_dict
to_dict(p) ==
  << [ k |-> "event_id", v |-> Atom(p.event_id) ],
     [ k |-> "event_type", v |-> Atom(p.event_type) ],
     [ k |-> "timestamp", v |-> IsoZ(p.timestamp) ],
     [ k |-> "data", v |-> Object(p.data) ],
     [ k |-> "signature", v |-> SignatureValue(p.signature) ] >>

\* WebhookPayload.to_json
to_json(p) == dumps(to_dict(p), FALSE)

\* a sign that serializes the members in the order of to_dict
sign_Unsorted(p, secret) ==
  hmac_sha256(secret, dumps(pop(to_dict(p), "signature"), FALSE))

\* WebhookPayload.sign: the signature it computes (and stores in the payload)
sign(p, secret) ==
  hmac_sha256(secret, dumps(pop(to_dict(p), "signature"), TRUE))

\* WebhookPayload.verify_signature (hmac.compare_digest is equality)
verify_signature(payload_json, signature, secret) ==
  hmac_sha256(secret, payload_json) = signature

\* WebhookPayload.from_payment_event: the data of a payment, the keys in the
\* order the dict literal names them
EventData(amount) ==
  << [ k |-> "merchant_id", v |-> Atom("0xmerchant") ],
     [ k |-> "amount", v |-> Atom(amount) ] >>

\* the payloads of the model: two events, created in a second with or
\* without microseconds, two amounts; not signed yet, or carrying an
\* earlier signature
Secrets == {"s1", "s2"}

\* webhook URLs a merchant registers
Urls == {"u1", "u2"}

OldDigest == [ secret |-> "s0", msg |-> << >> ]

Payloads ==
  { [ event_id |-> e, event_type |-> "payment.completed",
      timestamp |-> [ date |-> "2024-01-01T00:00:00", us |-> u ],
      data |-> EventData(a), signature |-> g ] :
      e \in {"evt_a", "evt_b"}, u \in {"0", "5"}, a \in {"100", "200"},
      g \in {NoDigest, OldDigest} }

\* the WebhookPayload _retry_delivery rebuilds from the stored JSON
PayloadFromJson(payload_json) ==
  LET payload_dict == loads(payload_json)
  IN [ event_id |-> Get(payload_dict, "event_id").s,
       event_type |-> Get(payload_dict, "event_type").s,
       timestamp |-> FromIsoZ(Get(payload_dict, "timestamp")),
       data |-> Get(payload_dict, "data").o,
       signature |-> Get(payload_dict, "signature").h ]

\* WebhookService._deliver: the request made for a signed payload; current
\* is the merchant's secret in the directory when the request is made
Request(kind, url, p, current) ==
  [ kind |-> kind, url |-> url, body |-> to_json(p),
    header |-> [ prefix |-> "sha256=", hex |-> p.signature ],
    current |-> current ]

NoRequest ==
  [ kind |-> "none", url |-> "", body |-> << >>,
    header |-> [ prefix |-> "", hex |-> NoDigest ], current |-> "" ]

NoCheck ==
  [ done |-> FALSE,
    p |-> CHOOSE x \in Payloads : TRUE, s |-> "s1",
    q |-> CHOOSE x \in Payloads : TRUE, t |-> "s1",
    signature |-> NoDigest, result |-> FALSE ]

\* nothing signed, nothing sent
InitSignIdle ==
  /\ payload = CHOOSE x \in Payloads : TRUE
  /\ msecret = "s1"
  /\ murl = "u1"
  /\ stored = << >>
  /\ held = << >>
  /\ request = NoRequest
  /\ check = NoCheck

\* ------------------------------------------------------------------------
\* Initial state
\* ------------------------------------------------------------------------
IdleTask == [ pc |-> "idle", event |-> "e1", kind |-> "webhook",
              after |-> FALSE, lookup |-> FALSE, invoked |-> FALSE,
              result |-> "none" ]

NoOp == [ op |-> "init", event |-> "e1", kind |-> "webhook", ok |-> FALSE,
          rc_before |-> 0, at |-> 0, applied |-> FALSE,
          outcome |-> "none", result |-> "none" ]

ZeroStats == [ total_notifications |-> 0, webhook_sent |-> 0,
               telegram_sent |-> 0, webhook_failed |-> 0,
               telegram_failed |-> 0, merchant_not_found |-> 0,
               already_processed |-> 0 ]

InitRate ==
  /\ clock = 0
  /\ last_send_times = << >>
  /\ waiters = << >>
  /\ sent = [t \in 0..MaxClock |-> 0]
  /\ arrivals = 0

\* notify_multiple not called
InitBatchIdle ==
  /\ events = << >>
  /\ batch_i = 0
  /\ bpc = "idle"
  /\ started = {}
  /\ completed = {}
  /\ results = << >>
  /\ pauses = 0

\* no function under evaluation
NoCall == [ fn |-> "none" ]

NoReturn == [ raised |-> FALSE ]

InitCallIdle ==
  /\ call = NoCall
  /\ returned = NoReturn

\* a transport service as main.py runs it: started once, its session open
\* and its one retry processor running (the processor is sched[k])
Started(k) == [ kind |-> k, running |-> TRUE, session |-> "open",
                stopped |-> FALSE ]

InitServiceIdle ==
  /\ service = Started("webhook")
  /\ loops = << >>

\* nothing routed yet, both retry processors about to run their first sweep
DeliveryIdle ==
  /\ now = 0
  /\ ledger = [e \in {} |-> 0]
  /\ next_id = 1
  /\ task = [t \in Tasks |-> IdleTask]
  /\ sched = [k \in Kinds |-> [pc |-> "ready", queue |-> << >>]]
  /\ stats = ZeroStats
  /\ calls = [e \in Events |-> [live |-> 0, retry |-> 0]]
  /\ succ_writes = [e \in Events |-> 0]
  /\ done_ok = [e \in Events |-> FALSE]
  /\ chain = [e \in Events |-> 0]
  /\ last = NoOp

\* either database backend; the event source delivers a payment of the
\* webhook merchant or a payment of the chat merchant, any number of times
InitDelivery ==
  /\ is_postgres \in BOOLEAN
  /\ source \in {{"e1"}, {"e2"}}
  /\ merchants = MerchantRows
  /\ DeliveryIdle

\* the merchant directory in any of its shapes: the event source delivers a
\* payment of the chat merchant, or a payment of merchant "mx"
InitDirectory ==
  /\ is_postgres \in BOOLEAN
  /\ source \in {{"e2"}, {"e3"}}
  /\ merchants \in Directories
  /\ "e3" \notin source => merchants = MerchantRows
  /\ DeliveryIdle
  /\ InitRate
  /\ InitServiceIdle
  /\ InitBatchIdle
  /\ InitSignIdle
  /\ InitCallIdle

Init ==
  /\ InitDelivery /\ InitRate /\ InitBatchIdle /\ InitSignIdle /\ InitCallIdle
  /\ InitServiceIdle

\* the rate limiter on its own: the sends of the Telegram service
InitRateOnly ==
  /\ is_postgres = TRUE
  /\ source = {"e2"}
  /\ merchants = MerchantRows
  /\ DeliveryIdle
  /\ InitRate
  /\ InitServiceIdle
  /\ InitBatchIdle
  /\ InitSignIdle
  /\ InitCallIdle

\* ------------------------------------------------------------------------
\* Live routing (services/notification_router.py)
\* ------------------------------------------------------------------------
\* a configuration check that does not ask for the webhook secret
ConfigOk_UrlOnly(m) ==
  IF m.notification_type = "webhook"
    THEN m.webhook_url # ""
    ELSE m.telegram_chat_id # ""

\* WebhookService.send_notification / TelegramService.send_notification:
\* the configuration checks made before anything is sent
ConfigOk(m) ==
  IF m.notification_type = "webhook"
    THEN m.webhook_url # "" /\ m.webhook_secret # ""
    ELSE m.telegram_chat_id # ""

\* NotificationRouter.route_notification up to its first network
\* suspension: the dedup check, the merchant lookup, Merchant.from_dict,
\* the dispatch and the transport's own checks.  The call returns at once,
\* raises the ValueError of Merchant.validate, or leaves a request in
\* flight.
RouteNotification(t, e) ==
  /\ task[t].pc \in {"idle", "done"}
  /\ stats.total_notifications < MaxRoutes
  /\ LET m == merchant_id(e)
         base == [ pc |-> "done", event |-> e, kind |-> "webhook",
                   after |-> done_ok[e], lookup |-> TRUE, invoked |-> FALSE,
                   result |-> "fail" ]
         s1 == [stats EXCEPT !.total_notifications = @ + 1]
     IN IF check_event_processed(ledger, e)
          THEN /\ stats' = [s1 EXCEPT !.already_processed = @ + 1]
               /\ task' = [task EXCEPT ![t] = [base EXCEPT !.result = "ok",
                                                           !.lookup = FALSE]]
               /\ calls' = calls
          ELSE IF m \notin DOMAIN merchants
          THEN /\ stats' = [s1 EXCEPT !.merchant_not_found = @ + 1]
               /\ task' = [task EXCEPT ![t] = base]
               /\ calls' = calls
          ELSE IF ~Valid(merchants[m])
          THEN /\ stats' = s1
               /\ task' = [task EXCEPT ![t] = [base EXCEPT !.result = "raise"]]
               /\ calls' = calls
          ELSE IF ~merchants[m].is_active
          THEN /\ stats' = s1
               /\ task' = [task EXCEPT ![t] = base]
               /\ calls' = calls
          ELSE IF ~ConfigOk(merchants[m])
          THEN /\ stats' =
                    IF merchants[m].notification_type = "webhook"
                      THEN [s1 EXCEPT !.webhook_failed = @ + 1]
                      ELSE [s1 EXCEPT !.telegram_failed = @ + 1]
               /\ task' = [task EXCEPT ![t] =
                             [base EXCEPT !.kind = merchants[m].notification_type]]
               /\ calls' = calls
          ELSE /\ stats' = s1
               /\ task' = [task EXCEPT ![t] =
                             [base EXCEPT !.pc = "inflight",
                                          !.kind = merchants[m].notification_type,
                                          !.invoked = TRUE,
                                          !.result = "none"]]
               /\ calls' = [calls EXCEPT ![e].live = @ + 1]
  /\ last' = [NoOp EXCEPT !.op = "route", !.event = e, !.at = now,
                           !.result = task'[t].result]
  /\ UNCHANGED <<is_postgres, source, now, merchants, ledger, next_id, sched,
                 succ_writes, done_ok, chain>>
  /\ UNCHANGED <<rvars, bvars, svars, pvars, lvars>>

\* The rest of send_notification: the transport answers with outcome o,
\* the attempt is written with log_delivery and the call returns.
LiveDelivered(t, o) ==
  /\ task[t].pc = "inflight"
  /\ LET e == task[t].event
         k == task[t].kind
         ok == Success(o)
         nxt == IF k = "webhook" THEN WebhookFirstRetry(ok, now)
                                 ELSE TelegramFirstRetry(ok, now)
     IN /\ ledger' = log_delivery(ledger, is_postgres, next_id, e, k, ok,
                                  ResponseCode(o), ResponseBody(o), 0, nxt)
        /\ task' = [task EXCEPT ![t].pc = "done",
                                ![t].result = LiveResult(o)]
        /\ stats' =
             IF k = "webhook"
               THEN IF ok THEN [stats EXCEPT !.webhook_sent = @ + 1]
                          ELSE [stats EXCEPT !.webhook_failed = @ + 1]
               ELSE IF ok THEN [stats EXCEPT !.telegram_sent = @ + 1]
                          ELSE [stats EXCEPT !.telegram_failed = @ + 1]
        /\ succ_writes' = IF ok THEN [succ_writes EXCEPT ![e] = @ + 1]
                                ELSE succ_writes
        /\ done_ok' = IF ok THEN [done_ok EXCEPT ![e] = TRUE] ELSE done_ok
        /\ chain' = [chain EXCEPT ![e] = IF ok THEN 0 ELSE 1]
        /\ last' = [ op |-> "live", event |-> e, kind |-> k, ok |-> ok,
                     rc_before |-> 0, at |-> now, applied |-> TRUE,
                     outcome |-> o, result |-> LiveResult(o) ]
  /\ next_id' = next_id + 1
  /\ UNCHANGED <<is_postgres, source, now, merchants, sched, calls>>
  /\ UNCHANGED <<rvars, bvars, svars, pvars, lvars>>

\* ------------------------------------------------------------------------
\* Retry processors (WebhookService / TelegramService)
\* ------------------------------------------------------------------------
\* _process_retries: [p for p in pending if p.get('delivery_method') == k]
OwnRetries(pending, k) ==
  SelectSeq(pending, LAMBDA r : r.delivery_method = k)

\* _process_retries: query the ledger and keep the rows of this transport
ProcessRetries(k) ==
  /\ sched[k].pc = "ready"
  /\ \E q \in get_pending_retries(ledger, merchants, now) :
       LET mine == OwnRetries(q, k)
       IN sched' = [sched EXCEPT ![k] =
                      [ pc |-> IF mine = << >> THEN "sleeping" ELSE "processing",
                        queue |-> mine ]]
  /\ last' = [NoOp EXCEPT !.op = "sweep", !.kind = k, !.at = now]
  /\ UNCHANGED <<is_postgres, source, now, merchants, ledger, next_id, task, stats,
                 calls, succ_writes, done_ok, chain>>
  /\ UNCHANGED <<rvars, bvars, svars, pvars, lvars>>

\* the configuration a retry needs is present in the row it was given
RetryConfigOk(k, row) ==
  IF k = "webhook"
    THEN row.webhook_url # "" /\ row.webhook_secret # "" /\ row.payload # ""
    ELSE row.telegram_chat_id # "" /\ row.payload # ""

\* the budget rule of the transport
NextRetry(k, new_retry_count, t) ==
  IF k = "webhook" THEN WebhookNextRetry(new_retry_count, t)
                   ELSE TelegramNextRetry(new_retry_count, t)

\* _retry_delivery for the next row of the sweep, the transport answering
\* with outcome o
RetryDelivery(k, o) ==
  /\ sched[k].pc = "processing"
  /\ LET row == Head(sched[k].queue)
         rest == Tail(sched[k].queue)
         e == row.event
         ok == Success(o)
         hit == \E x \in DOMAIN ledger : ledger[x].id = row.id
         new_retry_count == row.retry_count + 1
     IN /\ sched' = [sched EXCEPT ![k] =
                       [ pc |-> IF rest = << >> THEN "sleeping" ELSE "processing",
                         queue |-> rest ]]
        /\ IF ~RetryConfigOk(k, row)
             THEN /\ o = "network_error"
                  /\ ledger' = update_delivery_retry(ledger, row.id,
                                 new_retry_count, NULL, NULL, "missing")
                  /\ calls' = calls
                  /\ succ_writes' = succ_writes
                  /\ chain' = chain
                  /\ last' = [ op |-> "retry_config", event |-> e, kind |-> k,
                               ok |-> FALSE, rc_before |-> row.retry_count,
                               at |-> now, applied |-> hit,
                               outcome |-> "none", result |-> "none" ]
             ELSE /\ calls' = [calls EXCEPT ![e].retry = @ + 1]
                  /\ ledger' =
                       IF ok THEN mark_delivery_success(ledger, row.id)
                             ELSE update_delivery_retry(ledger, row.id,
                                    new_retry_count,
                                    NextRetry(k, new_retry_count, now),
                                    ResponseCode(o), ResponseBody(o))
                  /\ succ_writes' = IF ok /\ hit
                                      THEN [succ_writes EXCEPT ![e] = @ + 1]
                                      ELSE succ_writes
                  /\ chain' = IF ~hit THEN chain
                              ELSE [chain EXCEPT ![e] = IF ok THEN 0 ELSE @ + 1]
                  /\ last' = [ op |-> "retry", event |-> e, kind |-> k,
                               ok |-> ok, rc_before |-> row.retry_count,
                               at |-> now, applied |-> hit,
                               outcome |-> o, result |-> "none" ]
  /\ UNCHANGED <<is_postgres, source, now, merchants, next_id, task, stats, done_ok>>
  /\ UNCHANGED <<rvars, bvars, svars, pvars, lvars>>

\* ------------------------------------------------------------------------
\* Time
\* ------------------------------------------------------------------------
\* the retry times recorded in the ledger that still lie ahead
DueTimes ==
  { ledger[e].next_retry_at : e \in { x \in DOMAIN ledger :
        ~ledger[x].success /\ ledger[x].next_retry_at > now } }

\* The instants the clock advances to.  Time enters the engine only through
\* the comparison next_retry_at <= now of get_pending_retries and through
\* the 60 second sleep of the retry processors.  So the clock moves to the
\* next retry time recorded in the ledger; when none lies ahead it moves by
\* one minute, and only to wake the retry processors for a row that is due.
\* A processor that has woken up queries the ledger before the next minute
\* passes.
NextInstants ==
  IF DueTimes # {}
    THEN { CHOOSE t \in DueTimes : \A u \in DueTimes : t <= u }
  ELSE IF /\ PendingRows(ledger, merchants, now) # {}
          /\ \A k \in Kinds : sched[k].pc = "sleeping"
    THEN {now + 1}
  ELSE {}

\* time passes; a retry processor asleep in asyncio.sleep(60) wakes up
Tick(t) ==
  /\ t <= MaxTime
  /\ \A k \in Kinds : sched[k].pc # "ready"
  /\ now' = t
  /\ sched' = [k \in Kinds |->
                 IF sched[k].pc = "sleeping"
                   THEN [sched[k] EXCEPT !.pc = "ready"]
                   ELSE sched[k]]
  /\ last' = [NoOp EXCEPT !.op = "tick", !.at = t]
  /\ UNCHANGED <<is_postgres, source, merchants, ledger, next_id, task, stats,
                 calls, succ_writes, done_ok, chain>>
  /\ UNCHANGED <<rvars, bvars, svars, pvars, lvars>>

\* ------------------------------------------------------------------------
\* Specification of delivery and retry
\* ------------------------------------------------------------------------
Next ==
  \/ \E t \in Tasks, e \in source : RouteNotification(t, e)
  \/ \E t \in Tasks, o \in Outcomes : LiveDelivered(t, o)
  \/ \E k \in Kinds : ProcessRetries(k)
  \/ \E k \in Kinds, o \in Outcomes : RetryDelivery(k, o)
  \/ \E t \in NextInstants : Tick(t)

Spec == Init /\ [][Next]_vars

\* the same engine over the merchant directories of the model
SpecDirectory == InitDirectory /\ [][Next]_vars

TypeOK ==
  /\ now \in 0..MaxTime
  /\ \A e \in DOMAIN ledger : ledger[e].retry_count \in Nat

\* ------------------------------------------------------------------------
\* The router's statistics (NotificationRouter.get_stats / reset_stats)
\* ------------------------------------------------------------------------
\* a reset that clears the total only
reset_stats_TotalOnly(s) == [s EXCEPT !.total_notifications = 0]

\* reset_stats: for key in self._stats: self._stats[key] = 0
reset_stats(s) == [ key \in DOMAIN s |-> 0 ]

\* reset_stats is called (once, at any moment, also while calls of
\* route_notification are in flight)
ResetStats ==
  /\ call = NoCall
  /\ call' = [ fn |-> "reset_stats" ]
  /\ stats' = reset_stats(stats)
  /\ last' = [NoOp EXCEPT !.op = "reset", !.at = now]
  /\ UNCHANGED <<is_postgres, source, now, merchants, ledger, next_id, task,
                 sched, calls, succ_writes, done_ok, chain>>
  /\ UNCHANGED <<returned, rvars, bvars, svars, lvars>>

\* the router on its own: calls of route_notification, their ends, and a
\* reset of the statistics
NextStats ==
  \/ \E t \in Tasks, e \in source : RouteNotification(t, e)
  \/ \E t \in Tasks, o \in Outcomes : LiveDelivered(t, o)
  \/ ResetStats

SpecStats == InitDirectory /\ [][NextStats]_vars

\* ------------------------------------------------------------------------
\* The retry processors left to themselves
\* ------------------------------------------------------------------------
\* route_notification for a pair that has no record yet: the calls that
\* arrive before the first attempt is written (they may overlap, and end
\* after the retries have begun); none arrives afterwards
FirstRoute(t, e) ==
  /\ ~HasRecord(ledger, e)
  /\ RouteNotification(t, e)

\* time passes, as far as the retry times ask for
Elapse(t) ==
  /\ \A k \in Kinds : sched[k].pc # "ready"
  /\ now' = t
  /\ sched' = [k \in Kinds |->
                 IF sched[k].pc = "sleeping"
                   THEN [sched[k] EXCEPT !.pc = "ready"]
                   ELSE sched[k]]
  /\ last' = [NoOp EXCEPT !.op = "tick", !.at = t]
  /\ UNCHANGED <<is_postgres, source, merchants, ledger, next_id, task, stats,
                 calls, succ_writes, done_ok, chain>>
  /\ UNCHANGED <<rvars, bvars, svars, pvars, lvars>>

NextTerminate ==
  \/ \E t \in Tasks, e \in source : FirstRoute(t, e)
  \/ \E t \in Tasks, o \in Outcomes : LiveDelivered(t, o)
  \/ \E k \in Kinds : ProcessRetries(k)
  \/ \E k \in Kinds, o \in Outcomes : RetryDelivery(k, o)
  \/ \E t \in NextInstants : Elapse(t)

\* The loops of both retry processors keep running (each sweeps when it
\* is awake and works through the rows it read), and time advances.
SpecTerminate ==
  /\ Init
  /\ [][NextTerminate]_vars
  /\ \A k \in Kinds : WF_vars(ProcessRetries(k))
  /\ \A k \in Kinds : WF_vars(\E o \in Outcomes : RetryDelivery(k, o))
  /\ WF_vars(\E t \in NextInstants : Elapse(t))

\* ------------------------------------------------------------------------
\* A merchant that is deactivated (api/merchant_api.py)
\* ------------------------------------------------------------------------
\* DELETE /api/merchant/{id}: update_merchant_status(id, False)
DeactivateMerchant(m) ==
  /\ m \in DOMAIN merchants
  /\ merchants[m].is_active
  /\ merchants' = [merchants EXCEPT ![m].is_active = FALSE]
  /\ last' = [NoOp EXCEPT !.op = "deactivate", !.at = now]
  /\ UNCHANGED <<is_postgres, source, now, ledger, next_id, task, sched, stats,
                 calls, succ_writes, done_ok, chain>>
  /\ UNCHANGED <<rvars, bvars, svars, pvars, lvars>>

\* route_notification for an event of a merchant that is inactive
InactiveRoute(t, e) ==
  /\ merchant_id(e) \in DOMAIN merchants
  /\ ~merchants[merchant_id(e)].is_active
  /\ RouteNotification(t, e)

\* the event is routed once; after its merchant was deactivated it is
\* routed again, by the same caller
NextDeactivate ==
  \/ \E e \in source : FirstRoute(1, e)
  \/ \E e \in source : InactiveRoute(1, e)
  \/ \E t \in Tasks, o \in Outcomes : LiveDelivered(t, o)
  \/ \E k \in Kinds : ProcessRetries(k)
  \/ \E k \in Kinds, o \in Outcomes : RetryDelivery(k, o)
  \/ \E t \in NextInstants : Elapse(t)
  \/ \E e \in source : DeactivateMerchant(merchant_id(e))

\* the retry processors keep running and time advances, as in
\* SpecTerminate; the merchant may be deactivated at any moment
SpecDeactivate ==
  /\ Init
  /\ [][NextDeactivate]_vars
  /\ \A k \in Kinds : WF_vars(ProcessRetries(k))
  /\ \A k \in Kinds : WF_vars(\E o \in Outcomes : RetryDelivery(k, o))
  /\ WF_vars(\E t \in NextInstants : Elapse(t))

\* ------------------------------------------------------------------------
\* A merchant that changes its transport (api/merchant_api.py)
\* ------------------------------------------------------------------------
\* the row register_merchant writes for a merchant that registers with the
\* other transport: create_webhook_merchant and create_telegram_merchant
\* leave the columns of the other transport empty
OtherTransportRow(m) ==
  IF MerchantRows[m].notification_type = "webhook"
    THEN MerchantRow("telegram", "", "", "chat", TRUE)
    ELSE MerchantRow("webhook", "url", "secret", "", TRUE)

\* POST /api/merchant/register for a registered merchant: the merchant
\* moves to the other transport
RegisterAgain(m) ==
  /\ m \in DOMAIN merchants
  /\ merchants[m] = MerchantRows[m]
  /\ merchants' = [merchants EXCEPT ![m] = OtherTransportRow(m)]
  /\ last' = [NoOp EXCEPT !.op = "register", !.at = now]
  /\ UNCHANGED <<is_postgres, source, now, ledger, next_id, task, sched, stats,
                 calls, succ_writes, done_ok, chain>>
  /\ UNCHANGED <<rvars, bvars, svars, pvars, lvars>>

NextSwitch ==
  \/ Next
  \/ \E e \in source : RegisterAgain(merchant_id(e))

SpecSwitch == Init /\ [][NextSwitch]_vars

\* ------------------------------------------------------------------------
\* start() and stop() of a transport service
\* (WebhookService / TelegramService: start, stop, _retry_processor)
\* ------------------------------------------------------------------------
\* The service of one kind is constructed; start() and stop() are called
\* one after the other in any order, at most MaxStarts times start().
\* Every start() creates a _retry_processor task.  Two records of the
\* service's kind have failed and are due.

\* the two events of transport k, and the directory of their merchants
EventsOf(k) == IF k = "webhook" THEN {"e1", "e3"} ELSE {"e2", "e3"}

DirectoryOf(k) ==
  IF k = "webhook"
    THEN [ mw |-> MerchantRows["mw"],
           mx |-> MerchantRow("webhook", "url", "secret", "", TRUE) ]
    ELSE [ mt |-> MerchantRows["mt"],
           mx |-> MerchantRow("telegram", "", "", "chat", TRUE) ]

\* the ledger after the live attempts of both events failed at time 0
FailedLive(l, pg, id, e, k) ==
  log_delivery(l, pg, id, e, k, FALSE, ResponseCode("http_error"),
               ResponseBody("http_error"), 0,
               IF k = "webhook" THEN WebhookFirstRetry(FALSE, 0)
                                ELSE TelegramFirstRetry(FALSE, 0))

TwoFailures(pg, k) ==
  LET first == IF k = "webhook" THEN "e1" ELSE "e2"
  IN FailedLive(FailedLive([e \in {} |-> 0], pg, 1, first, k), pg, 2, "e3", k)

\* __init__: self._session = None, self._running = False
Constructed(k) == [ kind |-> k, running |-> FALSE, session |-> "none",
                    stopped |-> FALSE ]

\* a _retry_processor task that asyncio.create_task has scheduled
NewLoop == [ pc |-> "created", queue |-> << >>, sending |-> "none" ]

InitLifecycle ==
  /\ service \in { Constructed(k) : k \in Kinds }
  /\ loops = << >>
  /\ is_postgres \in BOOLEAN
  /\ source = EventsOf(service.kind)
  /\ merchants = DirectoryOf(service.kind)
  /\ now = 1
  /\ ledger = TwoFailures(is_postgres, service.kind)
  /\ next_id = 3
  /\ task = [t \in Tasks |-> IdleTask]
  /\ sched = [k \in Kinds |-> [pc |-> "sleeping", queue |-> << >>]]
  /\ stats = ZeroStats
  /\ calls = [e \in Events |-> [live |-> 0, retry |-> 0]]
  /\ succ_writes = [e \in Events |-> 0]
  /\ done_ok = [e \in Events |-> FALSE]
  /\ chain = [e \in Events |-> 1]
  /\ last = NoOp
  /\ InitRate
  /\ InitBatchIdle
  /\ InitSignIdle
  /\ InitCallIdle

\* start(): a new session, _running = True, asyncio.create_task
Start ==
  /\ Len(loops) < MaxStarts
  /\ service' = [service EXCEPT !.running = TRUE, !.session = "open",
                                !.stopped = FALSE]
  /\ loops' = Append(loops, NewLoop)
  /\ last' = [NoOp EXCEPT !.op = "start", !.kind = service.kind, !.at = now]
  /\ UNCHANGED <<is_postgres, source, now, merchants, ledger, next_id, task,
                 sched, stats, calls, succ_writes, done_ok, chain>>
  /\ UNCHANGED <<rvars, bvars, svars, pvars>>

\* stop(): _running = False, the session is closed and forgotten.  (A loop
\* that runs while stop() awaits session.close() sees _running = False and
\* a closed session, on which post raises: what it does then is what it
\* does after stop() has returned.)
Stop ==
  /\ ~service.stopped
  /\ service' = [service EXCEPT !.running = FALSE, !.session = "none",
                                !.stopped = TRUE]
  /\ last' = [NoOp EXCEPT !.op = "stop", !.kind = service.kind, !.at = now]
  /\ UNCHANGED <<is_postgres, source, now, merchants, ledger, next_id, task,
                 sched, stats, calls, succ_writes, done_ok, chain, loops>>
  /\ UNCHANGED <<rvars, bvars, svars, pvars>>

\* a loop that goes on whatever _running is
LoopCondition_Forever(sv) == TRUE

\* _retry_processor: while self._running
LoopCondition(sv) == sv.running

\* where a loop stands after the row it was working on
AfterRow(lp) ==
  LET rest == Tail(lp.queue)
  IN [ pc |-> IF rest = << >> THEN "sleeping" ELSE "processing",
       queue |-> rest, sending |-> "none" ]

\* _retry_processor: the task runs for the first time, or asyncio.sleep(60)
\* returns; the loop ends, or _process_retries queries the ledger
LoopIterate(i) ==
  /\ i \in 1..Len(loops)
  /\ loops[i].pc \in {"created", "sleeping"}
  /\ IF LoopCondition(service)
       THEN /\ \E q \in get_pending_retries(ledger, merchants, now) :
                 LET mine == OwnRetries(q, service.kind)
                 IN loops' = [loops EXCEPT ![i] =
                      [ pc |-> IF mine = << >> THEN "sleeping" ELSE "processing",
                        queue |-> mine, sending |-> "none" ]]
            /\ last' = [NoOp EXCEPT !.op = "sweep", !.kind = service.kind,
                                    !.at = now]
       ELSE /\ loops' = [loops EXCEPT ![i].pc = "exited"]
            /\ last' = [NoOp EXCEPT !.op = "exit", !.kind = service.kind,
                                    !.at = now]
  /\ UNCHANGED <<is_postgres, source, now, merchants, ledger, next_id, task,
                 sched, stats, calls, succ_writes, done_ok, chain, service>>
  /\ UNCHANGED <<rvars, bvars, svars, pvars>>

\* _retry_delivery for the next row: _deliver / _send_message returns a
\* failure at once when self._session is None, and the failure is written
\* with update_delivery_retry; otherwise the request is made
RetryBegin(i) ==
  /\ i \in 1..Len(loops)
  /\ loops[i].pc = "processing"
  /\ LET row == Head(loops[i].queue)
         k == service.kind
         new_retry_count == row.retry_count + 1
     IN IF service.session = "none"
          THEN /\ ledger' = update_delivery_retry(ledger, row.id,
                              new_retry_count,
                              NextRetry(k, new_retry_count, now),
                              NULL, "no_session")
               /\ loops' = [loops EXCEPT ![i] = AfterRow(loops[i])]
               /\ calls' = calls
               /\ last' = [ op |-> "no_session", event |-> row.event,
                            kind |-> k, ok |-> FALSE,
                            rc_before |-> row.retry_count, at |-> now,
                            applied |-> TRUE, outcome |-> "none",
                            result |-> "none" ]
          ELSE /\ ledger' = ledger
               /\ loops' = [loops EXCEPT ![i].pc = "inflight",
                                         ![i].sending = row.event]
               /\ calls' = [calls EXCEPT ![row.event].retry = @ + 1]
               /\ last' = [ op |-> "request", event |-> row.event,
                            kind |-> k, ok |-> FALSE,
                            rc_before |-> row.retry_count, at |-> now,
                            applied |-> FALSE, outcome |-> "none",
                            result |-> "none" ]
  /\ UNCHANGED <<is_postgres, source, now, merchants, next_id, task, sched,
                 stats, succ_writes, done_ok, chain, service>>
  /\ UNCHANGED <<rvars, bvars, svars, pvars>>

\* the request of a retry ends with outcome o: mark_delivery_success or
\* update_delivery_retry
RetryEnd(i, o) ==
  /\ i \in 1..Len(loops)
  /\ loops[i].pc = "inflight"
  /\ LET row == Head(loops[i].queue)
         k == service.kind
         new_retry_count == row.retry_count + 1
     IN /\ ledger' =
             IF Success(o)
               THEN mark_delivery_success(ledger, row.id)
               ELSE update_delivery_retry(ledger, row.id, new_retry_count,
                      NextRetry(k, new_retry_count, now),
                      ResponseCode(o), ResponseBody(o))
        /\ last' = [ op |-> "retry", event |-> row.event, kind |-> k,
                     ok |-> Success(o), rc_before |-> row.retry_count,
                     at |-> now, applied |-> TRUE, outcome |-> o,
                     result |-> "none" ]
  /\ loops' = [loops EXCEPT ![i] = AfterRow(loops[i])]
  /\ UNCHANGED <<is_postgres, source, now, merchants, next_id, task, sched,
                 stats, calls, succ_writes, done_ok, chain, service>>
  /\ UNCHANGED <<rvars, bvars, svars, pvars>>

NextLifecycle ==
  \/ Start
  \/ Stop
  \/ \E i \in 1..MaxStarts : LoopIterate(i)
  \/ \E i \in 1..MaxStarts : RetryBegin(i)
  \/ \E i \in 1..MaxStarts, o \in Outcomes : RetryEnd(i, o)

SpecLifecycle == InitLifecycle /\ [][NextLifecycle]_vars

\* ------------------------------------------------------------------------
\* Telegram rate limiter (TelegramService._apply_rate_limit)
\* ------------------------------------------------------------------------
\* RATE_PERIOD in clock ticks
Period == RATE_PERIOD * TicksPerSecond

\* "Remove old timestamps"
Prune(times, t) == SelectSeq(times, LAMBDA x : t - x < Period)

\* s without its i-th element
RemoveAt(s, i) == [j \in 1..(Len(s) - 1) |-> IF j < i THEN s[j] ELSE s[j + 1]]

\* _send_message calls _apply_rate_limit: the timestamps are pruned; below
\* the limit the call records its time and goes on to the bot API at once;
\* at the limit it goes to sleep until the oldest timestamp expires, holding
\* the time it read on entry.
SendMessage ==
  /\ arrivals < MaxSends
  /\ arrivals' = arrivals + 1
  /\ LET pruned == Prune(last_send_times, clock)
     IN IF /\ Len(pruned) >= RATE_LIMIT
           /\ pruned[1] + Period - clock > 0
          THEN /\ waiters' = Append(waiters, [ now |-> clock,
                                               wake |-> pruned[1] + Period ])
               /\ last_send_times' = pruned
               /\ sent' = sent
          ELSE /\ last_send_times' = Append(pruned, clock)
               /\ sent' = [sent EXCEPT ![clock] = @ + 1]
               /\ waiters' = waiters
  /\ UNCHANGED clock
  /\ UNCHANGED <<dvars, bvars, svars, pvars, lvars>>

\* asyncio.sleep(wait_time) returns: the call records the time it read on
\* entry and goes on to the bot API
WakeUp(i) ==
  /\ i \in 1..Len(waiters)
  /\ waiters[i].wake <= clock
  /\ last_send_times' = Append(last_send_times, waiters[i].now)
  /\ sent' = [sent EXCEPT ![clock] = @ + 1]
  /\ waiters' = RemoveAt(waiters, i)
  /\ UNCHANGED <<clock, arrivals>>
  /\ UNCHANGED <<dvars, bvars, svars, pvars, lvars>>

\* the event loop's clock advances by one tick
ClockTick ==
  /\ clock < MaxClock
  /\ clock' = clock + 1
  /\ UNCHANGED <<last_send_times, waiters, sent, arrivals>>
  /\ UNCHANGED <<dvars, bvars, svars, pvars, lvars>>

NextRate ==
  \/ SendMessage
  \/ \E i \in 1..MaxSends : WakeUp(i)
  \/ ClockTick

SpecRate == InitRateOnly /\ [][NextRate]_vars

\* ------------------------------------------------------------------------
\* Batch routing (NotificationRouter.notify_multiple)
\* ------------------------------------------------------------------------
\* how the route_notification call of an event ends: (True, None),
\* (False, message), or an exception
RouteEnds == {"ok", "fail", "raise"}

\* lengths of the lists given to notify_multiple: empty, one event, a full
\* batch, one more, two full batches, the longest list
BatchLens == {0, 1, batch_size, batch_size + 1, 2 * batch_size, MaxEvents}

\* the lists given to notify_multiple: payments numbered by position, all
\* routed successfully except at most one, which fails or raises
BatchInputs ==
  { [ p \in 1..n |-> [ payment_intent_id |-> p,
                       ends |-> IF p = f THEN k ELSE "ok" ] ] :
      n \in BatchLens, f \in 0..MaxEvents, k \in {"fail", "raise"} }

\* events[i:i + batch_size], as positions (counted from 1)
Batch(evs, i) == { p \in 1..Len(evs) : i < p /\ p <= i + batch_size }

\* a pause after every batch, the last one included
PauseNeeded_AfterEvery(i, n) == i + batch_size <= n

\* "Small delay between batches": if i + batch_size < len(events)
PauseNeeded(i, n) == i + batch_size < n

\* the tuple appended to results for one event of a gathered batch
ResultEntry(ev) ==
  IF ev.ends = "raise"
    THEN [ payment_id |-> ev.payment_intent_id, success |-> FALSE,
           error |-> "str(exception)" ]
    ELSE [ payment_id |-> ev.payment_intent_id, success |-> ev.ends = "ok",
           error |-> IF ev.ends = "ok" THEN "None" ELSE "message" ]

\* a loop over the batch that leaves out the routes that raised
BatchResults_DropRaised(evs, i) ==
  SelectSeq([ k \in 1..Cardinality(Batch(evs, i)) |-> ResultEntry(evs[i + k]) ],
            LAMBDA r : r.error # "str(exception)")

\* zip(batch, batch_results): one tuple per event of the batch, in the
\* order of the batch (asyncio.gather returns results in argument order)
BatchResults(evs, i) ==
  [ k \in 1..Cardinality(Batch(evs, i)) |-> ResultEntry(evs[i + k]) ]

InitBatch ==
  /\ events \in BatchInputs
  /\ batch_i = 0
  /\ bpc = "idle"
  /\ started = {}
  /\ completed = {}
  /\ results = << >>
  /\ pauses = 0
  /\ is_postgres = TRUE
  /\ source = {"e1"}
  /\ merchants = MerchantRows
  /\ DeliveryIdle
  /\ InitRate
  /\ InitServiceIdle
  /\ InitSignIdle
  /\ InitCallIdle

\* notify_multiple is called: the first batch is cut and its routes are
\* handed to asyncio.gather together; an empty list returns at once
NotifyMultiple ==
  /\ bpc = "idle"
  /\ IF Len(events) = 0
       THEN bpc' = "returned" /\ started' = started
       ELSE bpc' = "gather" /\ started' = started \cup Batch(events, 0)
  /\ UNCHANGED <<events, batch_i, completed, results, pauses>>
  /\ UNCHANGED <<dvars, rvars, svars, pvars, lvars>>

\* one route_notification of the batch in flight returns or raises
RouteCompletes(p) ==
  /\ bpc = "gather"
  /\ p \in started \ completed
  /\ completed' = completed \cup {p}
  /\ UNCHANGED <<events, batch_i, bpc, started, results, pauses>>
  /\ UNCHANGED <<dvars, rvars, svars, pvars, lvars>>

\* asyncio.gather(return_exceptions=True) returns when every route of the
\* batch has ended; the results are appended; then the pause, or the end of
\* the loop
BatchGathered ==
  /\ bpc = "gather"
  /\ Batch(events, batch_i) \subseteq completed
  /\ results' = results \o BatchResults(events, batch_i)
  /\ bpc' = IF PauseNeeded(batch_i, Len(events)) THEN "sleep" ELSE "returned"
  /\ UNCHANGED <<events, batch_i, started, completed, pauses>>
  /\ UNCHANGED <<dvars, rvars, svars, pvars, lvars>>

\* asyncio.sleep(0.5) returns; the next batch is cut and gathered
BatchPause ==
  /\ bpc = "sleep"
  /\ pauses' = pauses + 1
  /\ batch_i' = batch_i + batch_size
  /\ started' = started \cup Batch(events, batch_i + batch_size)
  /\ bpc' = "gather"
  /\ UNCHANGED <<events, completed, results>>
  /\ UNCHANGED <<dvars, rvars, svars, pvars, lvars>>

NextBatch ==
  \/ NotifyMultiple
  \/ \E p \in 1..MaxEvents : RouteCompletes(p)
  \/ BatchGathered
  \/ BatchPause

SpecBatch == InitBatch /\ [][NextBatch]_vars

\* ------------------------------------------------------------------------
\* Signing and verification (WebhookPayload.sign / verify_signature)
\* ------------------------------------------------------------------------
\* the serialization the verifier is handed: the payload without its
\* signature field, keys sorted, compact separators
canonical(p) == dumps(pop(to_dict(p), "signature"), TRUE)

\* inputs of one round trip: payload p signed with secret s, then the
\* signature verified against payload q with secret t
InitSign ==
  /\ check \in [ done : {FALSE}, p : Payloads, s : Secrets,
                  q : Payloads, t : Secrets,
                  signature : {NoDigest}, result : {FALSE} ]
  /\ payload = check.p
  /\ msecret = check.s
  /\ murl = "u1"
  /\ stored = << >>
  /\ held = << >>
  /\ request = NoRequest
  /\ is_postgres = TRUE
  /\ source = {"e1"}
  /\ merchants = MerchantRows
  /\ DeliveryIdle
  /\ InitRate
  /\ InitServiceIdle
  /\ InitBatchIdle
  /\ InitCallIdle

\* p.sign(s), then verify_signature(canonical(q), signature, t)
VerifySignature ==
  /\ ~check.done
  /\ LET signature == sign(check.p, check.s)
     IN /\ check' = [check EXCEPT
                       !.done = TRUE,
                       !.signature = signature,
                       !.result = verify_signature(canonical(check.q),
                                                   signature, check.t)]
        /\ payload' = [check.p EXCEPT !.signature = signature]
  /\ UNCHANGED <<msecret, murl, stored, held, request>>
  /\ UNCHANGED <<dvars, rvars, bvars, pvars, lvars>>

NextSign == VerifySignature

SpecSign == InitSign /\ [][NextSign]_vars

\* ------------------------------------------------------------------------
\* Signed webhook requests (WebhookService.send_notification and
\* WebhookService._retry_delivery)
\* ------------------------------------------------------------------------
\* a payment of a webhook merchant: the payload from_payment_event builds
\* (not signed) and the merchant's secret
InitWebhook ==
  /\ payload \in { p \in Payloads : p.signature = NoDigest }
  /\ msecret \in Secrets
  /\ murl \in Urls
  /\ stored = << >>
  /\ held = << >>
  /\ request = NoRequest
  /\ check = NoCheck
  /\ is_postgres = TRUE
  /\ source = {"e1"}
  /\ merchants = MerchantRows
  /\ DeliveryIdle
  /\ InitRate
  /\ InitServiceIdle
  /\ InitBatchIdle
  /\ InitCallIdle

\* send_notification: the payload is signed with the secret of the merchant
\* just read from the directory, sent, and written to the ledger
SendLive ==
  /\ request.kind = "none"
  /\ LET signed == [payload EXCEPT !.signature = sign(payload, msecret)]
     IN /\ payload' = signed
        /\ request' = Request("live", murl, signed, msecret)
        /\ stored' = to_json(signed)
  /\ UNCHANGED <<msecret, murl, held, check>>
  /\ UNCHANGED <<dvars, rvars, bvars, pvars, lvars>>

\* the merchant registers again with webhook URL u (register_merchant
\* generates a new secret)
RegisterMerchant(s, u) ==
  /\ s # msecret
  /\ msecret' = s
  /\ murl' = u
  /\ UNCHANGED <<payload, stored, held, request, check>>
  /\ UNCHANGED <<dvars, rvars, bvars, pvars, lvars>>

\* a retry that sends the rebuilt payload with the signature it was stored
\* with
RetryRequest_StoredSignature(row) ==
  Request("retry", row.webhook_url, PayloadFromJson(row.payload), msecret)

\* _retry_delivery: the payload is rebuilt from the stored JSON, signed
\* again with the secret of the row and sent
RetryRequest(row) ==
  LET p == PayloadFromJson(row.payload)
      signed == [p EXCEPT !.signature = sign(p, row.webhook_secret)]
  IN Request("retry", row.webhook_url, signed, msecret)

\* _process_retries: get_pending_retries joins the record with the
\* merchant's row as it stands; the first row of the result is retried at
\* once, a row behind others waits for their retries to end
ProcessWebhookRetries(behind) ==
  /\ stored # << >>
  /\ held = << >>
  /\ LET row == [ payload |-> stored, webhook_url |-> murl,
                  webhook_secret |-> msecret ]
     IN IF behind
          THEN held' = <<row>> /\ request' = request
          ELSE held' = held /\ request' = RetryRequest(row)
  /\ UNCHANGED <<payload, msecret, murl, stored, check>>
  /\ UNCHANGED <<dvars, rvars, bvars, pvars, lvars>>

\* the loop of _process_retries reaches the row
RetryHeld ==
  /\ held # << >>
  /\ request' = RetryRequest(Head(held))
  /\ held' = Tail(held)
  /\ UNCHANGED <<payload, msecret, murl, stored, check>>
  /\ UNCHANGED <<dvars, rvars, bvars, pvars, lvars>>

NextWebhook ==
  \/ SendLive
  \/ \E s \in Secrets, u \in Urls : RegisterMerchant(s, u)
  \/ \E behind \in BOOLEAN : ProcessWebhookRetries(behind)
  \/ RetryHeld

SpecWebhook == InitWebhook /\ [][NextWebhook]_vars

\* ------------------------------------------------------------------------
\* One webhook delivery attempt (WebhookService._deliver and its callers)
\* ------------------------------------------------------------------------
\* HTTP status codes of the model, with the borders of the 2xx range
Statuses == {100, 199, 200, 201, 204, 299, 300, 301, 404, 500}

\* what the request of _deliver ends in: a response (its status and its
\* text, read in full), or an exception carrying a message
Replies ==
  [ kind : {"response"}, status : Statuses, text : {"", "body"} ]
    \cup [ kind : {"ClientError"}, status : {NULL}, text : {"Cannot connect"} ]
    \cup [ kind : {"TimeoutError"}, status : {NULL}, text : {""} ]
    \cup [ kind : {"Exception"}, status : {NULL}, text : {"unexpected"} ]

\* a _deliver that takes every status below 400 for a success
_deliver_Below400(session, reply) ==
  IF ~session
    THEN [ success |-> FALSE, response_code |-> NULL,
           response_body |-> "Session not initialized" ]
  ELSE IF reply.kind = "response"
    THEN [ success |-> reply.status < 400,
           response_code |-> reply.status, response_body |-> reply.text ]
    ELSE [ success |-> FALSE, response_code |-> NULL,
           response_body |-> IF reply.kind = "TimeoutError"
                               THEN "Request timeout" ELSE reply.text ]

\* WebhookService._deliver: (success, response_code, response_body)
_deliver(session, reply) ==
  IF ~session
    THEN [ success |-> FALSE, response_code |-> NULL,
           response_body |-> "Session not initialized" ]
  ELSE IF reply.kind = "response"
    THEN [ success |-> 200 <= reply.status /\ reply.status < 300,
           response_code |-> reply.status, response_body |-> reply.text ]
  ELSE IF reply.kind = "ClientError"
    THEN [ success |-> FALSE, response_code |-> NULL,
           response_body |-> reply.text ]
  ELSE IF reply.kind = "TimeoutError"
    THEN [ success |-> FALSE, response_code |-> NULL,
           response_body |-> "Request timeout" ]
    ELSE [ success |-> FALSE, response_code |-> NULL,
           response_body |-> reply.text ]

NotDelivered ==
  [ success |-> FALSE, response_code |-> NULL, response_body |-> "" ]

\* a payment of the webhook merchant; the session is open or not (start
\* not called, or stop called); the replies the live request and the
\* retry will get
InitDeliver ==
  /\ call \in [ fn : {"_deliver"}, step : {"live"}, session : BOOLEAN,
                 reply : Replies, again : Replies ]
  /\ returned = NotDelivered
  /\ is_postgres \in BOOLEAN
  /\ source = {"e1"}
  /\ merchants = MerchantRows
  /\ DeliveryIdle
  /\ InitRate
  /\ InitServiceIdle
  /\ InitBatchIdle
  /\ InitSignIdle

\* send_notification: _deliver, then log_delivery
DeliverLive ==
  /\ call.step = "live"
  /\ LET r == _deliver(call.session, call.reply)
     IN /\ returned' = r
        /\ ledger' = log_delivery(ledger, is_postgres, next_id, "e1", "webhook",
                                  r.success, r.response_code, r.response_body,
                                  0, WebhookFirstRetry(r.success, now))
  /\ next_id' = next_id + 1
  /\ call' = [call EXCEPT !.step = "logged"]
  /\ UNCHANGED <<is_postgres, source, now, merchants, task, sched, stats,
                 calls, succ_writes, done_ok, chain, last>>
  /\ UNCHANGED <<rvars, bvars, svars, lvars>>

\* the retry time of the failed record comes
RetryDue ==
  /\ call.step = "logged"
  /\ ~ledger["e1"].success
  /\ ledger["e1"].next_retry_at # NULL
  /\ now' = ledger["e1"].next_retry_at
  /\ call' = [call EXCEPT !.step = "due"]
  /\ UNCHANGED <<is_postgres, source, merchants, ledger, next_id, task, sched,
                 stats, calls, succ_writes, done_ok, chain, last>>
  /\ UNCHANGED <<returned, rvars, bvars, svars, lvars>>

\* _retry_delivery of the row: _deliver, then mark_delivery_success or
\* update_delivery_retry
DeliverRetry ==
  /\ call.step = "due"
  /\ LET r == _deliver(call.session, call.again)
         row == ledger["e1"]
         new_retry_count == row.retry_count + 1
     IN /\ returned' = r
        /\ ledger' =
             IF r.success
               THEN mark_delivery_success(ledger, row.id)
               ELSE update_delivery_retry(ledger, row.id, new_retry_count,
                      WebhookNextRetry(new_retry_count, now),
                      r.response_code, r.response_body)
  /\ call' = [call EXCEPT !.step = "retried"]
  /\ UNCHANGED <<is_postgres, source, now, merchants, next_id, task, sched,
                 stats, calls, succ_writes, done_ok, chain, last>>
  /\ UNCHANGED <<rvars, bvars, svars, lvars>>

NextDeliver == DeliverLive \/ RetryDue \/ DeliverRetry

SpecDeliver == InitDeliver /\ [][NextDeliver]_vars

\* ------------------------------------------------------------------------
\* The retry schedule of a webhook service (WebhookService.__init__)
\* ------------------------------------------------------------------------
\* the retry_delays argument of the constructor: None, or a list of minutes
NoSchedule == [ none |-> TRUE, list |-> << >> ]

Schedule(list) == [ none |-> FALSE, list |-> list ]

ScheduleArgs ==
  { NoSchedule, Schedule(<< >>), Schedule(<<2>>), Schedule(<<3, 6>>),
    Schedule(<<1, 5, 15, 60>>) }

\* config.webhook.retry_delays: WEBHOOK_RETRY_DELAYS split at the commas,
\* every part an int (an empty setting does not parse)
ConfigSchedules == { <<1, 5, 15, 60>>, <<4>> }

\* self.retry_delays = retry_delays or config.webhook.retry_delays
\* (None and the empty list are both false)
init_retry_delays(arg, config_delays) ==
  IF arg.none \/ Len(arg.list) = 0 THEN config_delays ELSE arg.list

\* times of the live attempt
AttemptTimes == 0..MaxTime

NotConstructed == [ raised |-> FALSE, retry_delays |-> << >> ]

\* WebhookService(db, retry_delays = arg) is about to be constructed under
\* a configuration, and send_notification called at time at, the endpoint
\* answering with outcome
InitSchedule ==
  /\ call \in [ fn : {"send_notification"}, step : {"new"},
                 retry_delays : ScheduleArgs, config : ConfigSchedules,
                 outcome : Outcomes, at : AttemptTimes ]
  /\ returned = NotConstructed
  /\ is_postgres \in BOOLEAN
  /\ source = {"e1"}
  /\ merchants = MerchantRows
  /\ DeliveryIdle
  /\ InitRate
  /\ InitServiceIdle
  /\ InitBatchIdle
  /\ InitSignIdle

\* WebhookService.__init__
ConstructService ==
  /\ call.step = "new"
  /\ returned' = [returned EXCEPT
                    !.retry_delays = init_retry_delays(call.retry_delays,
                                                       call.config)]
  /\ call' = [call EXCEPT !.step = "constructed"]
  /\ UNCHANGED <<dvars, rvars, bvars, svars, lvars>>

\* send_notification at time call.at: the attempt ends with call.outcome
\* and is written with log_delivery
SendWithSchedule ==
  /\ call.step = "constructed"
  /\ now' = call.at
  /\ LET ok == Success(call.outcome)
     IN ledger' = log_delivery(ledger, is_postgres, next_id, "e1", "webhook",
                               ok, ResponseCode(call.outcome),
                               ResponseBody(call.outcome), 0,
                               next_retry(returned.retry_delays, ok, call.at))
  /\ next_id' = next_id + 1
  /\ call' = [call EXCEPT !.step = "logged"]
  /\ UNCHANGED <<is_postgres, source, merchants, task, sched, stats,
                 calls, succ_writes, done_ok, chain, last>>
  /\ UNCHANGED <<returned, rvars, bvars, svars, lvars>>

NextSchedule == ConstructService \/ SendWithSchedule

SpecSchedule == InitSchedule /\ [][NextSchedule]_vars

\* ------------------------------------------------------------------------
\* Construction of a Merchant (models/merchant.py)
\* ------------------------------------------------------------------------
\* A merchant id is the text of an address: whether it starts with "0x",
\* how many characters follow, and whether letters are in upper case.
MerchantIds == [ prefix : BOOLEAN, body : {0, 38, 40, 42}, upper : BOOLEAN ]

\* len(id)
IdLen(id) == (IF id.prefix THEN 2 ELSE 0) + id.body

\* the arguments of the constructor; "" is None or the empty string
MerchantArgs ==
  [ id : MerchantIds,
    notification_type : {"webhook", "telegram", "sms"},
    webhook_url : {"", "ftp://m", "http://m", "https://m"},
    webhook_secret : {"", "secret"},
    telegram_chat_id : {"", "chat"} ]

\* str.startswith(('http://', 'https://')) on the URLs of the model
StartsWithHttp(url) == url \in {"http://m", "https://m"}

\* Merchant.validate: the message of the ValueError, "" when it returns
validate(m) ==
  IF IdLen(m.id) = 0 \/ IdLen(m.id) # 42
    THEN "Invalid Ethereum address"
  ELSE IF m.notification_type = "webhook" /\ m.webhook_url = ""
    THEN "Webhook URL is required for webhook notifications"
  ELSE IF m.notification_type = "webhook" /\ ~StartsWithHttp(m.webhook_url)
    THEN "Webhook URL must be a valid HTTP(S) URL"
  ELSE IF m.notification_type = "telegram" /\ m.telegram_chat_id = ""
    THEN "Telegram chat ID is required for Telegram notifications"
    ELSE ""

\* Merchant.__post_init__: NotificationType(...) of the kind, the id
\* prefixed with "0x" and lowered, then validate
__post_init__(args) ==
  IF args.notification_type \notin Kinds
    THEN [ raised |-> TRUE, error |-> "not a valid NotificationType",
           merchant |-> args ]
    ELSE LET id1 == IF IdLen(args.id) > 0 /\ ~args.id.prefix
                      THEN [args.id EXCEPT !.prefix = TRUE]
                      ELSE args.id
             m == [args EXCEPT !.id = [id1 EXCEPT !.upper = FALSE]]
         IN [ raised |-> validate(m) # "", error |-> validate(m),
              merchant |-> m ]

InitMerchant ==
  /\ call \in [ fn : {"Merchant"}, done : {FALSE}, args : MerchantArgs ]
  /\ returned = [ raised |-> FALSE, error |-> "", merchant |-> call.args ]
  /\ is_postgres = TRUE
  /\ source = {"e1"}
  /\ merchants = MerchantRows
  /\ DeliveryIdle
  /\ InitRate
  /\ InitServiceIdle
  /\ InitBatchIdle
  /\ InitSignIdle

\* Merchant(...) is constructed
ConstructMerchant ==
  /\ ~call.done
  /\ returned' = __post_init__(call.args)
  /\ call' = [call EXCEPT !.done = TRUE]
  /\ UNCHANGED <<dvars, rvars, bvars, svars, lvars>>

NextMerchant == ConstructMerchant

SpecMerchant == InitMerchant /\ [][NextMerchant]_vars

\* ------------------------------------------------------------------------
\* Amount formatting (PaymentEvent.get_formatted_amount)
\* ------------------------------------------------------------------------
\* A token address is one of the addresses of TOKEN_DECIMALS or another
\* one, written in lower case or in mixed case (checksum form).  An amount
\* is a decimal numeral: the sequence of its digits.
TokenAddresses ==
  [ addr : {"usdc_mainnet", "usdc_sepolia", "usdt_mainnet", "dai_mainnet",
            "other"},
    mixed : BOOLEAN ]

\* str.lower() of an address
lower_address(a) == [a EXCEPT !.mixed = FALSE]

\* TOKEN_DECIMALS.get(token_address, 18): the keys are in lower case
get_token_decimals(token_address) ==
  IF token_address.mixed THEN 18
  ELSE IF token_address.addr \in {"usdc_mainnet", "usdc_sepolia", "usdt_mainnet"}
    THEN 6
    ELSE 18

\* TOKEN_SYMBOLS.get(token_address, 'TOKEN')
get_token_symbol(token_address) ==
  IF token_address.mixed THEN "TOKEN"
  ELSE IF token_address.addr \in {"usdc_mainnet", "usdc_sepolia"} THEN "USDC"
  ELSE IF token_address.addr = "usdt_mainnet" THEN "USDT"
  ELSE IF token_address.addr = "dai_mainnet" THEN "DAI"
  ELSE "TOKEN"

RECURSIVE StripZeros(_)
\* the numeral without leading zeros
StripZeros(s) ==
  IF Len(s) > 1 /\ s[1] = 0 THEN StripZeros(Tail(s)) ELSE s

\* int(amount)
int(amount) == StripZeros(amount)

\* n times the digit d
Rep(d, n) == [ i \in 1..n |-> d ]

\* Decimal(amount_int) / Decimal(10 ** decimals): the point moves decimals
\* places to the left (the quotient is exact for numerals within the 28
\* digits of the decimal context)
Quotient(amount_int, decimals) ==
  LET s == IF Len(amount_int) < decimals + 1
             THEN Rep(0, decimals + 1 - Len(amount_int)) \o amount_int
             ELSE amount_int
  IN [ whole |-> SubSeq(s, 1, Len(s) - decimals),
       frac |-> SubSeq(s, Len(s) - decimals + 1, Len(s)) ]

RECURSIVE Increment(_)
\* the numeral plus one
Increment(s) ==
  IF s = << >> THEN <<1>>
  ELSE IF s[Len(s)] = 9 THEN Increment(SubSeq(s, 1, Len(s) - 1)) \o <<0>>
  ELSE SubSeq(s, 1, Len(s) - 1) \o <<s[Len(s)] + 1>>

\* the characters of the digits
DigitChars == <<"0", "1", "2", "3", "4", "5", "6", "7", "8", "9">>

\* f"{amount_decimal:.{places}f}": the decimal rounded to places digits
\* after the point, half to even (the rounding of the decimal context),
\* as text
FormatFixed(x, places) ==
  LET kept == x.whole \o SubSeq(x.frac, 1, places)
      tail == SubSeq(x.frac, places + 1, Len(x.frac))
      up == /\ tail # << >>
            /\ \/ tail[1] > 5
               \/ /\ tail[1] = 5
                  /\ \/ \E i \in 2..Len(tail) : tail[i] # 0
                     \/ kept[Len(kept)] % 2 = 1
      r == IF up THEN Increment(kept) ELSE kept
  IN [ i \in 1..(Len(r) - places) |-> DigitChars[r[i] + 1] ]
       \o <<".">>
       \o [ i \in 1..places |-> DigitChars[r[Len(r) - places + i] + 1] ]

\* a get_formatted_amount whose two-place rule stops below 6 decimals
get_formatted_amount_Below6(event) ==
  LET decimals == get_token_decimals(event.token_address)
      amount_decimal == Quotient(int(event.amount), decimals)
      formatted == IF decimals < 6 THEN FormatFixed(amount_decimal, 2)
                                   ELSE FormatFixed(amount_decimal, 4)
  IN formatted \o <<" ", get_token_symbol(event.token_address)>>

\* PaymentEvent.get_formatted_amount
get_formatted_amount(event) ==
  LET decimals == get_token_decimals(event.token_address)
      amount_decimal == Quotient(int(event.amount), decimals)
      formatted == IF decimals <= 6 THEN FormatFixed(amount_decimal, 2)
                                    ELSE FormatFixed(amount_decimal, 4)
  IN formatted \o <<" ", get_token_symbol(event.token_address)>>

\* PaymentEvent.__post_init__, as far as the token goes
PaymentEvent(args) ==
  [args EXCEPT !.token_address = lower_address(@)]

\* whole parts of the amounts of the model
Wholes == { <<0>>, <<1>>, <<9>>, <<1, 0, 0>>, <<9, 9, 9>> }

\* amounts in units of 10^-6: whole part, two digits that are kept, and
\* four more below, at and above the half
Amounts6 ==
  { StripZeros(w \o f \o t) :
      w \in Wholes,
      f \in { <<0, 0>>, <<0, 1>>, <<1, 2>>, <<9, 8>>, <<9, 9>> },
      t \in { Rep(0, 4), <<4>> \o Rep(9, 3), <<5>> \o Rep(0, 3),
              <<5>> \o Rep(0, 2) \o <<1>>, Rep(9, 4) } }

\* amounts in units of 10^-18: whole part, four digits that are kept, and
\* fourteen more
Amounts18 ==
  { StripZeros(w \o f \o t) :
      w \in Wholes,
      f \in { Rep(0, 4), <<0, 0, 0, 1>>, <<1, 2, 3, 4>>, <<9, 9, 9, 8>>,
              Rep(9, 4) },
      t \in { Rep(0, 14), <<4>> \o Rep(9, 13), <<5>> \o Rep(0, 13),
              <<5>> \o Rep(0, 12) \o <<1>>, Rep(9, 14) } }

\* a payment in a token: small amounts for every token, amounts of whole
\* 18-decimal units for the tokens that are not in TOKEN_DECIMALS with 6
InitAmount ==
  /\ call \in [ fn : {"get_formatted_amount"}, done : {FALSE},
                 token_address : TokenAddresses,
                 amount : Amounts6 \cup Amounts18 ]
  /\ call.amount \in Amounts6
       \/ call.token_address.addr \in {"dai_mainnet", "other"}
  /\ returned = [ text |-> << >> ]
  /\ is_postgres = TRUE
  /\ source = {"e1"}
  /\ merchants = MerchantRows
  /\ DeliveryIdle
  /\ InitRate
  /\ InitServiceIdle
  /\ InitBatchIdle
  /\ InitSignIdle

\* PaymentEvent(...).get_formatted_amount()
FormatAmount ==
  /\ ~call.done
  /\ returned' = [ text |-> get_formatted_amount(PaymentEvent(call)) ]
  /\ call' = [call EXCEPT !.done = TRUE]
  /\ UNCHANGED <<dvars, rvars, bvars, svars, lvars>>

NextAmount == FormatAmount

SpecAmount == InitAmount /\ [][NextAmount]_vars

\* ------------------------------------------------------------------------
\* Event ids (PaymentEvent.get_event_id)
\* ------------------------------------------------------------------------
\* Texts are sequences of characters.  A transaction hash is "0x" and hex
\* digits, in either case; a payment intent id is any text.
HexBodies ==
  { <<a>> : a \in {"a", "A", "b"} }
    \cup { <<a, b>> : a \in {"a", "A", "b"}, b \in {"a", "A", "b"} }

TransactionHashes == { <<"0", "x">> \o h : h \in HexBodies }

PaymentIntentIds ==
  { <<a>> : a \in {"p", "P", "_"} }
    \cup { <<a, b>> : a \in {"p", "P", "_"}, b \in {"p", "P", "_"} }

\* str.lower()
lower(text) ==
  [ i \in 1..Len(text) |->
      IF text[i] = "A" THEN "a" ELSE IF text[i] = "P" THEN "p" ELSE text[i] ]

\* an event id made of the transaction hash alone
get_event_id_HashOnly(event) ==
  <<"e", "v", "t", "_">> \o event.transaction_hash

\* PaymentEvent.get_event_id: f"evt_{transaction_hash}_{payment_intent_id}"
get_event_id(event) ==
  <<"e", "v", "t", "_">> \o event.transaction_hash \o <<"_">>
    \o event.payment_intent_id

\* PaymentEvent.__post_init__, as far as the event id goes
NormalizedEvent(args) ==
  [args EXCEPT !.transaction_hash = lower(@)]

\* the fields of an event that take part in the model
EventArgs ==
  [ transaction_hash : TransactionHashes,
    payment_intent_id : PaymentIntentIds,
    amount : {"100"} ]

\* two payment events; the second one has the same or another amount
InitEventId ==
  /\ call \in [ fn : {"get_event_id"}, done : {FALSE},
                 first : EventArgs,
                 second : [ transaction_hash : TransactionHashes,
                            payment_intent_id : PaymentIntentIds,
                            amount : {"100", "200"} ] ]
  /\ returned = [ first |-> << >>, second |-> << >> ]
  /\ is_postgres = TRUE
  /\ source = {"e1"}
  /\ merchants = MerchantRows
  /\ DeliveryIdle
  /\ InitRate
  /\ InitServiceIdle
  /\ InitBatchIdle
  /\ InitSignIdle

\* PaymentEvent(...).get_event_id() of both events
GetEventIds ==
  /\ ~call.done
  /\ returned' = [ first |-> get_event_id(NormalizedEvent(call.first)),
                   second |-> get_event_id(NormalizedEvent(call.second)) ]
  /\ call' = [call EXCEPT !.done = TRUE]
  /\ UNCHANGED <<dvars, rvars, bvars, svars, lvars>>

NextEventId == GetEventIds

SpecEventId == InitEventId /\ [][NextEventId]_vars

\* ------------------------------------------------------------------------
\* Properties of delivery and retry
\* ------------------------------------------------------------------------
\* the retry budget of a transport
Budget(method) ==
  IF method = "webhook" THEN Len(retry_delays) ELSE TelegramMaxRetries

\* Exhausted: failed, no retry time, budget spent
Exhausted(l, e) ==
  /\ HasRecord(l, e)
  /\ ~l[e].success
  /\ l[e].next_retry_at = NULL
  /\ l[e].retry_count >= Budget(l[e].delivery_method)

\* the fields of a record the retry state machine is made of
SameOutcome(r1, r2) ==
  /\ r1.success = r2.success
  /\ r1.retry_count = r2.retry_count
  /\ r1.next_retry_at = r2.next_retry_at
  /\ r1.response_code = r2.response_code
  /\ r1.response_body = r2.response_body

\* C1: a route_notification call that starts after a call for the same
\* (event id, merchant id) returned with a recorded success invokes no
\* transport and returns (True, None).
C1_ReplayIsNoOp ==
  \A t \in Tasks :
    task[t].after =>
      /\ ~task[t].invoked
      /\ task[t].pc = "done" => task[t].result = "ok"

\* C2: once a ledger record has success = TRUE, no step changes its success
\* flag, retry_count, next_retry_at or response fields.
C2_SuccessIsTerminal ==
  [][\A e \in DOMAIN ledger :
       ledger[e].success =>
         /\ e \in DOMAIN ledger'
         /\ SameOutcome(ledger[e], ledger'[e])]_vars

\* C3: in every reachable state a record with success = TRUE has no retry
\* time, and a record whose retry budget is spent has no retry time.
C3_RetryTimeAbsentWhenTerminal ==
  \A e \in DOMAIN ledger :
    /\ ledger[e].success => ledger[e].next_retry_at = NULL
    /\ ledger[e].retry_count >= Budget(ledger[e].delivery_method)
         => ledger[e].next_retry_at = NULL

\* C4: once a record is Exhausted, no step (sweep or renewed
\* route_notification) makes another delivery attempt for it or changes its
\* success, retry_count or next_retry_at.
C4_ExhaustedIsTerminal ==
  [][\A e \in DOMAIN ledger :
       Exhausted(ledger, e) =>
         /\ calls'[e] = calls[e]
         /\ e \in DOMAIN ledger'
         /\ ledger'[e].success = ledger[e].success
         /\ ledger'[e].retry_count = ledger[e].retry_count
         /\ ledger'[e].next_retry_at = ledger[e].next_retry_at]_vars

\* C10: a success is written to the ledger at most once per
\* (event id, merchant id).
C10_AtMostOneSuccessRecorded ==
  \A e \in Events : succ_writes[e] <= 1

\* the last step recorded a failed live attempt for e
LiveFailed(e) == last.op = "live" /\ last.event = e /\ ~last.ok

\* the last step recorded a failed retry for e, its update reaching the row
RetryFailed(e) ==
  last.op = "retry" /\ last.event = e /\ ~last.ok /\ last.applied

C6_EveryAttemptFiveMinuteSteps ==
  \A e \in DOMAIN ledger :
    (ledger[e].delivery_method = "telegram" /\ (LiveFailed(e) \/ RetryFailed(e))) =>
      ledger[e].next_retry_at =
        IF last.rc_before + 1 < 3 THEN last.at + 5 * (last.rc_before + 1)
                                  ELSE NULL

\* C6 (amended): a failed live chat attempt schedules the first retry at
\* now + 1 minute; a failed chat retry that read retry count c writes c + 1
\* and schedules the next retry at now + 5 x (c + 1) minutes while
\* c + 1 < 3 and leaves no retry time otherwise, so three failed retries in
\* a row give +5 minutes, +10 minutes and then Exhausted.
C6_ChatRetrySchedule ==
  \A e \in DOMAIN ledger :
    ledger[e].delivery_method = "telegram" =>
      /\ LiveFailed(e) =>
           /\ ledger[e].retry_count = 0
           /\ ledger[e].next_retry_at = last.at + 1
      /\ RetryFailed(e) =>
           /\ ledger[e].retry_count = last.rc_before + 1
           /\ ledger[e].next_retry_at =
                IF last.rc_before = 0 THEN last.at + 5
                ELSE IF last.rc_before = 1 THEN last.at + 10
                ELSE NULL
      /\ chain[e] >= 4 => Exhausted(ledger, e)

\* C6 witness: the third retry in a row of a chat record has just failed
\* and the record is Exhausted
C6_Witness ==
  \E e \in DOMAIN ledger :
    /\ ledger[e].delivery_method = "telegram"
    /\ RetryFailed(e)
    /\ last.rc_before = 2
    /\ chain[e] = 4
    /\ Exhausted(ledger, e)

\* C7: the chat retry processor makes at most 3 retry attempts for a
\* record; after its third failed retry the record has no retry time, and
\* no later sweep sends for it.
C7_ChatRetryCap ==
  \A e \in DOMAIN ledger :
    ledger[e].delivery_method = "telegram" =>
      /\ calls[e].retry <= 3
      /\ (RetryFailed(e) /\ calls[e].retry >= 3) =>
           ledger[e].next_retry_at = NULL

\* ------------------------------------------------------------------------
\* Properties of the dispatch
\* ------------------------------------------------------------------------
\* the transport that is not k
OtherKind(k) == IF k = "webhook" THEN "telegram" ELSE "webhook"

\* the calls the router has counted as sent or failed for transport k
SentOrFailed(s, k) ==
  IF k = "webhook" THEN s.webhook_sent + s.webhook_failed
                   ELSE s.telegram_sent + s.telegram_failed

\* C30: a route_notification call that is not a replay and whose merchant
\* is registered and active is handed to the transport of the merchant's
\* notification_type, once, and when that transport returns exactly one of
\* its two counters (sent, failed) has grown by one and the counters of
\* the other transport are as they were.
C30_DispatchToConfiguredTransport ==
  [][ /\ \A t \in Tasks, e \in source :
           ( /\ RouteNotification(t, e)
             /\ ~check_event_processed(ledger, e)
             /\ merchant_id(e) \in DOMAIN merchants
             /\ merchants[merchant_id(e)].is_active
             /\ merchants[merchant_id(e)].notification_type \in Kinds )
           => LET k == merchants[merchant_id(e)].notification_type
              IN /\ task'[t].result # "raise"
                 /\ task'[t].kind = k
                 /\ SentOrFailed(stats', OtherKind(k)) =
                      SentOrFailed(stats, OtherKind(k))
                 /\ IF task'[t].pc = "inflight"
                      THEN /\ calls'[e].live = calls[e].live + 1
                           /\ SentOrFailed(stats', k) = SentOrFailed(stats, k)
                      ELSE /\ calls' = calls
                           /\ stats'.webhook_sent = stats.webhook_sent
                           /\ stats'.telegram_sent = stats.telegram_sent
                           /\ SentOrFailed(stats', k) = SentOrFailed(stats, k) + 1
      /\ \A t \in Tasks, o \in Outcomes :
           LiveDelivered(t, o)
           => LET k == task[t].kind
              IN /\ SentOrFailed(stats', k) = SentOrFailed(stats, k) + 1
                 /\ SentOrFailed(stats', OtherKind(k)) =
                      SentOrFailed(stats, OtherKind(k))
                 /\ calls' = calls ]_vars

\* ------------------------------------------------------------------------
\* Properties of the retry processors
\* ------------------------------------------------------------------------
\* C25: for one (event id, merchant id) the retry processors make no more
\* delivery attempts than the retry budget of the transport (the length of
\* retry_delays for webhook, 3 for chat), whatever live routes and sweeps
\* take place.
C25_RetriesWithinBudget ==
  \A e \in DOMAIN ledger :
    calls[e].retry <= Budget(ledger[e].delivery_method)

\* C26: with the retry processors running, time advancing, the merchant
\* in the directory and no live route arriving once the pair has a record,
\* every failed record eventually is terminal: success = TRUE, or
\* Exhausted with no retry time.
C26_FailedRecordTerminates ==
  \A e \in Events :
    (HasRecord(ledger, e) /\ ~ledger[e].success)
      ~> (HasRecord(ledger, e) /\ (ledger[e].success \/ Exhausted(ledger, e)))

\* a record whose retries all failed is Exhausted, its last retry made
\* later than the sum of the delays of one series (a live attempt that
\* ended after the retries had begun started a second series)
C26_Witness ==
  \E e \in DOMAIN ledger :
    /\ Exhausted(ledger, e)
    /\ last.op = "retry"
    /\ calls[e].live = 2
    /\ calls[e].retry > Budget(ledger[e].delivery_method)

\* the record of the row at the head of the queue of processor k, as the
\* ledger holds it now, is a failed record of transport k with a retry time
HeadRecordIsPending(k) ==
  LET e == Head(sched[k].queue).event
  IN HasRecord(ledger, e) =>
       /\ ledger[e].delivery_method = k
       /\ ~ledger[e].success
       /\ ledger[e].next_retry_at # NULL

\* C27: the rows a sweep of transport k works on had, when the sweep
\* queried the ledger, success = FALSE, a retry time not later than the
\* time of the query, and delivery method k; and a retry never sends for or
\* updates a record of the other transport, a successful record or a
\* record without a retry time.
C27_SweepTouchesOnlyPendingRecordsOfItsKind ==
  /\ [](\A k \in Kinds :
          \A i \in 1..Len(sched[k].queue) :
            LET row == sched[k].queue[i]
            IN /\ row.delivery_method = k
               /\ ~row.success
               /\ row.next_retry_at # NULL
               /\ row.next_retry_at <= now)
  /\ [][\A k \in Kinds, o \in Outcomes :
          RetryDelivery(k, o) => HeadRecordIsPending(k)]_vars

\* the row at the head of the queue of processor k lacks the configuration
\* its retry needs
HeadLacksConfiguration(k) ==
  /\ sched[k].pc = "processing"
  /\ LET row == Head(sched[k].queue)
     IN \/ row.payload = ""
        \/ k = "webhook" /\ (row.webhook_url = "" \/ row.webhook_secret = "")
        \/ k = "telegram" /\ row.telegram_chat_id = ""

\* C28: a retry whose row lacks the webhook URL or secret, the chat id or
\* the stored payload makes no network call and leaves the record failed
\* and without a retry time; no retry is made for the record afterwards.
C28_MissingConfigurationEndsRetries ==
  /\ [][\A k \in Kinds, o \in Outcomes :
          (RetryDelivery(k, o) /\ HeadLacksConfiguration(k)) =>
            LET e == Head(sched[k].queue).event
            IN /\ calls' = calls
               /\ HasRecord(ledger', e)
               /\ ledger'[e].next_retry_at = NULL
               /\ ~ledger'[e].success]_vars
  /\ [][\A e \in DOMAIN ledger :
          ledger[e].response_body = "missing" =>
            calls'[e].retry = calls[e].retry]_vars

\* C29: a retry that succeeds leaves the record with success = TRUE, no
\* retry time and its retry count unchanged; a retry that fails leaves it
\* with success = FALSE, its retry count increased by one, and the retry
\* time of the transport's policy for the new count (none when the budget
\* is spent).
C29_OutcomeOfOneRetry ==
  [][\A k \in Kinds, o \in Outcomes :
       (RetryDelivery(k, o) /\ ~HeadLacksConfiguration(k)) =>
         LET e == Head(sched[k].queue).event
         IN /\ HasRecord(ledger, e)
            /\ HasRecord(ledger', e)
            /\ IF Success(o)
                 THEN /\ ledger'[e].success
                      /\ ledger'[e].next_retry_at = NULL
                      /\ ledger'[e].retry_count = ledger[e].retry_count
                 ELSE /\ ~ledger'[e].success
                      /\ ledger'[e].retry_count = ledger[e].retry_count + 1
                      /\ ledger'[e].next_retry_at =
                           IF ledger'[e].retry_count < Budget(k)
                             THEN now + (IF k = "webhook"
                                           THEN retry_delays[ledger'[e].retry_count + 1]
                                           ELSE TelegramRetryStep * ledger'[e].retry_count)
                             ELSE NULL]_vars

\* ------------------------------------------------------------------------
\* Properties of live routing
\* ------------------------------------------------------------------------
\* C11: when route_notification returns from a delivery attempt (merchant
\* active and configured, event not recorded as successful when the call
\* checked), the ledger holds a record for the pair and its success flag
\* equals the delivered value returned, whether the transport succeeded or
\* failed.
C11_EveryAttemptRecorded ==
  last.op = "live" =>
    /\ last.result \in {"ok", "fail"}
    /\ last.event \in DOMAIN ledger
    /\ ledger[last.event].success = (last.result = "ok")
    /\ ledger[last.event].retry_count = 0

\* C11 witness: a live attempt has just failed over an earlier record of the
\* pair, and the record says so
C11_Witness ==
  /\ last.op = "live"
  /\ last.result = "fail"
  /\ calls[last.event].live >= 2
  /\ last.event \in DOMAIN ledger
  /\ ~ledger[last.event].success

\* the merchant row violates the configuration invariant: unknown kind,
\* webhook kind without URL or secret, chat kind without destination id
ConfigurationError(m) ==
  \/ m.notification_type \notin {"webhook", "telegram"}
  \/ m.notification_type = "webhook" /\ (m.webhook_url = "" \/ m.webhook_secret = "")
  \/ m.notification_type = "telegram" /\ m.telegram_chat_id = ""

\* C12: a route_notification call for an event whose merchant is missing
\* from the directory, or present but inactive, returns a failure result,
\* invokes no transport and leaves the ledger unchanged.
C12_MissingOrInactiveFails ==
  [][\A t \in Tasks, e \in Events :
       ( /\ RouteNotification(t, e)
         /\ \/ merchant_id(e) \notin DOMAIN merchants
            \/ ~merchants[merchant_id(e)].is_active )
       => /\ task'[t].pc = "done"
          /\ task'[t].result = "fail"
          /\ ~task'[t].invoked
          /\ calls' = calls
          /\ ledger' = ledger]_vars

\* C13: route_notification never raises for a merchant row that violates
\* the configuration invariant; the call returns (False, reason).
C13_ConfigurationErrorIsAResult ==
  \A t \in Tasks :
    ( /\ task[t].pc = "done"
      /\ task[t].lookup
      /\ merchant_id(task[t].event) \in DOMAIN merchants
      /\ ConfigurationError(merchants[merchant_id(task[t].event)]) )
    => task[t].result = "fail"

\* C14: a route_notification call that ends in a configuration error
\* (merchant active; unknown kind, or no secret, URL or destination for the
\* declared kind) makes no network call and writes no ledger record, and
\* the retry processors never pick the event up: it never stands in a
\* sweep's queue and no retry is sent for it.
C14_ConfigurationErrorLeavesNoTrace ==
  /\ [][\A t \in Tasks, e \in Events :
          ( /\ RouteNotification(t, e)
            /\ merchant_id(e) \in DOMAIN merchants
            /\ merchants[merchant_id(e)].is_active
            /\ ConfigurationError(merchants[merchant_id(e)]) )
          => /\ task'[t].pc = "done"
             /\ task'[t].result # "ok"
             /\ ~task'[t].invoked
             /\ calls' = calls
             /\ ledger' = ledger
             /\ next_id' = next_id]_vars
  /\ [](\A e \in Events :
          ( /\ merchant_id(e) \in DOMAIN merchants
            /\ merchants[merchant_id(e)].is_active
            /\ ConfigurationError(merchants[merchant_id(e)]) )
          => /\ e \notin DOMAIN ledger
             /\ calls[e] = [live |-> 0, retry |-> 0]
             /\ \A k \in Kinds : \A i \in 1..Len(sched[k].queue) :
                  sched[k].queue[i].event # e)

\* C14 witness: a route for an active merchant with a configuration error
\* has ended, nothing was sent and the ledger holds no record for the event
C14_Witness ==
  \E t \in Tasks :
    /\ task[t].pc = "done"
    /\ task[t].lookup
    /\ task[t].result # "ok"
    /\ ~task[t].invoked
    /\ merchant_id(task[t].event) \in DOMAIN merchants
    /\ merchants[merchant_id(task[t].event)].is_active
    /\ merchants[merchant_id(task[t].event)].webhook_secret = ""
    /\ merchants[merchant_id(task[t].event)].notification_type = "webhook"
    /\ task[t].event \notin DOMAIN ledger
    /\ stats.webhook_failed >= 1

\* C15: a network error, a timeout or a non-success response of either
\* transport does not raise out of route_notification: the call returns
\* (False, message) and the ledger holds the record of the attempt with the
\* response detail (status code where there was a response, and the body or
\* the text of the exception).
C15_TransportFailureIsRecorded ==
  (last.op = "live" /\ last.outcome # "ok") =>
    /\ last.result = "fail"
    /\ last.event \in DOMAIN ledger
    /\ ~ledger[last.event].success
    /\ last.outcome = "http_error" =>
         /\ ledger[last.event].response_code = 500
         /\ ledger[last.event].response_body = "error"
    /\ last.outcome = "network_error" =>
         /\ ledger[last.event].response_code = NULL
         /\ ledger[last.event].response_body = "exception"

\* C15 witness: a live attempt has just ended in a network error, the call
\* returned a failure and the record carries the text of the exception
C15_Witness ==
  /\ last.op = "live"
  /\ last.outcome = "network_error"
  /\ last.result = "fail"
  /\ last.event \in DOMAIN ledger
  /\ ledger[last.event].response_body = "exception"
  /\ ledger[last.event].next_retry_at = last.at + 1

\* C18: a route_notification call on a pair whose ledger record has
\* success = TRUE returns (True, None) before the merchant directory is
\* consulted, sends nothing and leaves the whole ledger unchanged; only the
\* counters of the router (and the coroutine itself) change.
C18_ReplayLeavesLedgerAlone ==
  [][\A t \in Tasks, e \in Events :
       ( /\ RouteNotification(t, e)
         /\ e \in DOMAIN ledger
         /\ ledger[e].success )
       => /\ task'[t].pc = "done"
          /\ task'[t].result = "ok"
          /\ ~task'[t].lookup
          /\ ~task'[t].invoked
          /\ ledger' = ledger
          /\ stats'.already_processed = stats.already_processed + 1
          /\ UNCHANGED <<is_postgres, source, now, merchants, next_id, sched,
                         calls, succ_writes, done_ok, chain>>]_vars

\* C18 witness: a replay has just returned at the dedup check, the record
\* standing as the successful retry left it
C18_Witness ==
  \E t \in Tasks :
    /\ last.op = "route"
    /\ task[t].pc = "done"
    /\ task[t].event = last.event
    /\ task[t].result = "ok"
    /\ ~task[t].lookup
    /\ stats.already_processed >= 1
    /\ last.event \in DOMAIN ledger
    /\ ledger[last.event].success
    /\ calls[last.event].retry >= 1

\* ------------------------------------------------------------------------
\* Properties of batch routing
\* ------------------------------------------------------------------------
\* the group of 10 consecutive events position p belongs to (from 0)
Group(p) == (p - 1) \div 10

\* C16: notify_multiple works through the events in consecutive groups of
\* at most 10: the routes of a group are started together, no route of a
\* later group starts before every route of the groups before it has
\* ended, one pause precedes every group but the first, and no pause
\* follows the last group.
C16_BatchGrouping ==
  LET n == Len(events)
  IN /\ \A p \in started : \A q \in 1..n :
          /\ Group(q) = Group(p) => q \in started
          /\ Group(q) < Group(p) => q \in completed
     /\ \A p \in started : pauses >= Group(p)
     /\ \A g \in 0..pauses : g > 0 => \E p \in started : Group(p) = g
     /\ bpc = "sleep" => \E p \in 1..n : p \notin started
     /\ bpc = "returned" =>
          /\ started = 1..n
          /\ completed = 1..n
          /\ pauses = IF n = 0 THEN 0 ELSE Group(n)

\* C16 witness: a list of more than 20 events has been worked through in
\* three groups with two pauses
C16_Witness ==
  /\ bpc = "returned"
  /\ Len(events) > 20
  /\ pauses = 2
  /\ completed = 1..Len(events)

\* C17: an event whose route fails or raises neither stops nor fails a
\* sibling: every route of its group ends, notify_multiple returns one
\* (payment id, success, error) entry per event in the order of the input,
\* each entry carrying the outcome of its own route, and a raised
\* exception appears as (payment id, False, message).
C17_BatchIsolation ==
  /\ bpc \in {"idle", "gather", "sleep", "returned"}
  /\ Len(results) <= Len(events)
  /\ \A i \in 1..Len(results) :
       /\ results[i].payment_id = events[i].payment_intent_id
       /\ results[i].success = (events[i].ends = "ok")
       /\ events[i].ends = "raise" =>
            results[i].error = "str(exception)"
       /\ i \in completed
  /\ bpc = "returned" => Len(results) = Len(events)

\* C17 witness: a list with an event whose route raised has been worked
\* through; its entry says False, the entries of its siblings say True
C17_Witness ==
  /\ bpc = "returned"
  /\ Len(events) > 10
  /\ \E i \in 1..Len(events) :
       /\ events[i].ends = "raise"
       /\ ~results[i].success
       /\ \A j \in 1..Len(events) : j # i => results[j].success

\* ------------------------------------------------------------------------
\* Properties of signatures
\* ------------------------------------------------------------------------
\* two payloads with the same content: every field but the signature
SameContent(p, q) ==
  /\ p.event_id = q.event_id
  /\ p.event_type = q.event_type
  /\ p.timestamp = q.timestamp
  /\ p.data = q.data

\* C19: the signature sign(p, s) verifies against the canonical
\* serialization of a payload q (its signature field left out) under a
\* secret t exactly when q has the content of p and t is s: the round trip
\* of one payload and one secret is true, and a payload that differs in a
\* field, or another secret, makes it false.
C19_SignatureRoundTrip ==
  check.done =>
    /\ check.signature = sign(check.p, check.s)
    /\ check.result <=> (SameContent(check.p, check.q) /\ check.s = check.t)

\* a round trip that verified although the payload verified carried another
\* signature field than the payload signed
C19_Witness ==
  /\ check.done
  /\ check.result
  /\ check.p.signature # check.q.signature
  /\ check.p.timestamp.us # "0"

\* the reference algorithm of a receiver: drop the signature field of the
\* body, serialize the rest with sorted keys and compact separators,
\* HMAC-SHA256 under the secret
Reference(body, secret) ==
  hmac_sha256(secret, dumps(pop(loads(body), "signature"), TRUE))

\* C20: for every webhook request made, live or retried, the reference
\* algorithm applied to the delivered body under the secret the merchant
\* has when the request is made gives the value of the X-Webhook-Signature
\* header after the sha256= prefix, and that value is the signature field of
\* the body.
C20_RequestVerifiesUnderCurrentSecret ==
  request.kind # "none" =>
    /\ request.header.prefix = "sha256="
    /\ Reference(request.body, request.current) = request.header.hex
    /\ Get(loads(request.body), "signature").h = request.header.hex

\* the members of a webhook body that make up its content
ContentKeys == {"event_id", "event_type", "timestamp", "data"}

\* C31: a sweep reads the webhook URL and secret of a due record from the
\* merchant's row as it stands when the sweep queries the ledger, and the
\* retry is sent to that URL and signed with that secret, whatever they
\* were at the first attempt; the body of the retried request has the
\* event id, event type, timestamp and data of the stored payload.
C31_RetryResolvesAtSweepTime ==
  /\ [](request.kind = "retry" =>
          \A key \in ContentKeys :
            Get(loads(request.body), key) = Get(loads(stored), key))
  /\ [][\A behind \in BOOLEAN :
          ProcessWebhookRetries(behind) =>
            IF behind
              THEN /\ held'[1].webhook_url = murl
                   /\ held'[1].webhook_secret = msecret
              ELSE /\ request'.kind = "retry"
                   /\ request'.url = murl
                   /\ request'.header.hex.secret = msecret]_vars
  /\ [][RetryHeld =>
          /\ request'.kind = "retry"
          /\ request'.url = Head(held).webhook_url
          /\ request'.header.hex.secret = Head(held).webhook_secret]_vars

\* a retry was sent with a secret that is not the one the stored payload
\* was signed with, for a payload whose timestamp has microseconds
C31_Witness ==
  /\ request.kind = "retry"
  /\ request.header.hex.secret # Get(loads(stored), "signature").h.secret
  /\ Get(loads(request.body), "timestamp").f # ""

\* ------------------------------------------------------------------------
\* Properties of the scheduler's updates
\* ------------------------------------------------------------------------
\* C39: the update a retry makes (mark_delivery_success or
\* update_delivery_retry) adds and removes no record, leaves the id, the
\* delivery method and the stored payload of every record as they were
\* (the event id and the merchant id are the key of the record), and
\* leaves every record but the one whose id it was given untouched.  (The
\* ledger of the model keeps no timestamps.)
C39_UpdatesKeepIdentityAndContent ==
  [][\A i \in 1..Len(loops), o \in Outcomes :
       (RetryBegin(i) \/ RetryEnd(i, o)) =>
         LET row == Head(loops[i].queue)
         IN /\ DOMAIN ledger' = DOMAIN ledger
            /\ \A e \in DOMAIN ledger :
                 /\ ledger'[e].id = ledger[e].id
                 /\ ledger'[e].delivery_method = ledger[e].delivery_method
                 /\ ledger'[e].payload = ledger[e].payload
                 /\ ledger[e].id # row.id => ledger'[e] = ledger[e]]_vars

\* a retry has just written its failure to one record, and the other
\* record is as the live attempt left it
C39_Witness ==
  \E e, f \in DOMAIN ledger :
    /\ e # f
    /\ last.op = "retry" /\ last.event = e /\ ~last.ok
    /\ ledger[e].retry_count = 1
    /\ ledger[f].retry_count = 0 /\ ~ledger[f].success
    /\ ledger[f].next_retry_at = 1

\* ------------------------------------------------------------------------
\* Properties of deactivation
\* ------------------------------------------------------------------------
\* the merchant of event e is registered and inactive
Inactive(e) ==
  /\ merchant_id(e) \in DOMAIN merchants
  /\ ~merchants[merchant_id(e)].is_active

\* C38: a sweep takes every due failed record of its kind, whether the
\* merchant is active or not; the failed record of a deactivated merchant
\* ends successful or Exhausted; and a live route for an inactive
\* merchant returns a failure without an attempt or a ledger write.
C38_RetriesIgnoreActiveFlag ==
  /\ [][\A k \in Kinds :
          ProcessRetries(k) =>
            \A e \in DOMAIN ledger :
              ( /\ ledger[e].delivery_method = k
                /\ ~ledger[e].success
                /\ ledger[e].next_retry_at # NULL
                /\ ledger[e].next_retry_at <= now )
              => \E i \in 1..Len(sched'[k].queue) :
                   sched'[k].queue[i].event = e]_vars
  /\ \A e \in Events :
       (HasRecord(ledger, e) /\ ~ledger[e].success /\ Inactive(e))
       ~> (HasRecord(ledger, e) /\ (ledger[e].success \/ Exhausted(ledger, e)))
  /\ [][\A t \in Tasks, e \in source :
          (RouteNotification(t, e) /\ ~check_event_processed(ledger, e)
             /\ Inactive(e))
          => /\ task'[t].pc = "done"
             /\ task'[t].result = "fail"
             /\ calls' = calls
             /\ ledger' = ledger]_vars

\* the failed record of a merchant was retried with success after the
\* merchant had been deactivated and a live route for it had failed
C38_Witness ==
  \E e \in Events :
    /\ Inactive(e)
    /\ last.op = "retry" /\ last.event = e /\ last.ok
    /\ HasRecord(ledger, e) /\ ledger[e].success
    /\ \E t \in Tasks : task[t].pc = "done" /\ task[t].event = e
                          /\ task[t].result = "fail" /\ ~task[t].invoked
                          /\ task[t].lookup

\* ------------------------------------------------------------------------
\* Properties of the statistics
\* ------------------------------------------------------------------------
\* the names of the counters
CounterNames ==
  { "total_notifications", "webhook_sent", "telegram_sent", "webhook_failed",
    "telegram_failed", "merchant_not_found", "already_processed" }

\* C36: a step that is not reset_stats lowers no counter; reset_stats
\* leaves every counter at zero; every call of route_notification raises
\* total_notifications by exactly one, however the call ends.
C36_CountersResetOnlyOnRequest ==
  /\ [][ IF call.fn = "none" /\ call'.fn = "reset_stats"
           THEN \A c \in CounterNames : stats'[c] = 0
           ELSE \A c \in CounterNames : stats'[c] >= stats[c] ]_vars
  /\ [][\A t \in Tasks, e \in source :
          RouteNotification(t, e) =>
            stats'.total_notifications = stats.total_notifications + 1]_vars

\* the statistics were reset after calls had been counted, and calls of
\* every ending have been counted since
C36_Witness ==
  /\ call.fn = "reset_stats"
  /\ stats.total_notifications >= 2
  /\ stats.already_processed >= 1
  /\ stats.webhook_sent + stats.telegram_sent >= 1

\* the calls counted by one of the six counters of an ending
Counted(s) ==
  s.already_processed + s.merchant_not_found + s.webhook_sent
    + s.webhook_failed + s.telegram_sent + s.telegram_failed

\* C37: when no call of route_notification is in flight the total is at
\* least the sum of the six other counters; a call adds at most one to
\* that sum, and a call that has ended adds nothing to it exactly when it
\* ended on an inactive merchant or an unknown transport kind.
C37_CounterAccounting ==
  /\ []((\A t \in Tasks : task[t].pc # "inflight") =>
          stats.total_notifications >= Counted(stats))
  /\ [][\A t \in Tasks, e \in source :
          RouteNotification(t, e) =>
            /\ Counted(stats') - Counted(stats) \in {0, 1}
            /\ task'[t].pc = "done" =>
                 ( Counted(stats') = Counted(stats)
                   <=> /\ ~check_event_processed(ledger, e)
                       /\ merchant_id(e) \in DOMAIN merchants
                       /\ \/ ~merchants[merchant_id(e)].is_active
                          \/ merchants[merchant_id(e)].notification_type
                               \notin Kinds )]_vars
  /\ [][\A t \in Tasks, o \in Outcomes :
          LiveDelivered(t, o) => Counted(stats') = Counted(stats) + 1]_vars

C34_ShutdownFailsNoRecord ==
  /\ [][Stop => loops' = loops]_vars
  /\ [][\A e \in DOMAIN ledger :
          (HasRecord(ledger', e) /\ ledger'[e].retry_count > ledger[e].retry_count)
          => \E i \in 1..Len(loops) :
               loops[i].pc = "inflight" /\ loops[i].sending = e]_vars

\* the retry loops of the service that have not ended
ActiveLoops == { i \in 1..Len(loops) : loops[i].pc # "exited" }

\* C35: whatever calls of start() and stop() were made, at most one retry
\* loop of the service has not ended, and no two loops have a request in
\* flight for the same record.
C35_OneRetryLoop ==
  /\ Cardinality(ActiveLoops) <= 1
  /\ \A i, j \in 1..Len(loops) :
       (i # j /\ loops[i].pc = "inflight" /\ loops[j].pc = "inflight")
       => loops[i].sending # loops[j].sending

\* ------------------------------------------------------------------------
\* Properties of the retry schedule
\* ------------------------------------------------------------------------
\* C32: a failed live webhook attempt is recorded with next_retry_at = the
\* time of the attempt + the first delay of the schedule the service was
\* given (of the configured schedule when it was given none); a service
\* given an empty schedule records the failure without a retry time.
C32_FirstRetryFromSchedule ==
  (call.step = "logged" /\ ~Success(call.outcome)) =>
    LET given == call.retry_delays
    IN ledger["e1"].next_retry_at =
         IF given.none THEN call.at + call.config[1]
         ELSE IF Len(given.list) > 0 THEN call.at + given.list[1]
         ELSE NULL

\* ------------------------------------------------------------------------
\* Properties of one delivery attempt
\* ------------------------------------------------------------------------
\* the reply the last attempt got
AttemptReply == IF call.step = "retried" THEN call.again ELSE call.reply

\* the request was made and a response came back
ResponseReceived == call.session /\ AttemptReply.kind = "response"

\* C21: a webhook delivery attempt, live or retried, is a success exactly
\* when a response came back with 200 <= status < 300; a failed attempt
\* leaves the record with success = FALSE, the status code of the response
\* (none when there was no response) and the response text or the text of
\* the error.
C21_SuccessIffStatus2xx ==
  call.step \in {"logged", "retried"} =>
    /\ returned.success <=>
         /\ ResponseReceived
         /\ AttemptReply.status >= 200
         /\ AttemptReply.status < 300
    /\ ledger["e1"].success = returned.success
    /\ ~returned.success =>
         /\ ledger["e1"].response_code =
              IF ResponseReceived THEN AttemptReply.status ELSE NULL
         /\ ledger["e1"].response_body =
              IF ResponseReceived THEN AttemptReply.text
              ELSE IF ~call.session THEN "Session not initialized"
              ELSE IF AttemptReply.kind = "TimeoutError" THEN "Request timeout"
              ELSE AttemptReply.text

\* a retry answered with status 300 has just been recorded as a failure
C21_Witness ==
  /\ call.step = "retried"
  /\ call.session
  /\ call.again.kind = "response"
  /\ call.again.status = 300
  /\ ~ledger["e1"].success
  /\ ledger["e1"].response_code = 300
  /\ ledger["e1"].retry_count = 1

\* ------------------------------------------------------------------------
\* Properties of the Merchant model
\* ------------------------------------------------------------------------
\* the configuration a merchant must have
ConfigurationInvariant(m) ==
  /\ m.notification_type \in Kinds
  /\ m.notification_type = "webhook" =>
       m.webhook_url # "" /\ m.webhook_secret # ""
  /\ m.notification_type = "telegram" => m.telegram_chat_id # ""
  /\ IdLen(m.id) = 42

\* C22: a Merchant that is constructed without an error has, for kind
\* webhook, a webhook URL and a webhook secret, for kind chat a chat id,
\* and an id of 42 characters; a construction that would violate this
\* raises an error.
C22_ConstructedMerchantIsConfigured ==
  (call.fn = "Merchant" /\ call.done /\ ~returned.raised) =>
    ConfigurationInvariant(returned.merchant)

\* ------------------------------------------------------------------------
\* Properties of amount formatting
\* ------------------------------------------------------------------------
RECURSIVE ToNat(_)
\* the number a numeral stands for
ToNat(s) ==
  IF s = << >> THEN 0
  ELSE 10 * ToNat(SubSeq(s, 1, Len(s) - 1)) + s[Len(s)]

\* the digit a character stands for
CharDigit(c) == CHOOSE i \in 0..9 : DigitChars[i + 1] = c

\* the token of the call has at most 6 decimals
SixDecimals ==
  call.token_address.addr \in {"usdc_mainnet", "usdc_sepolia", "usdt_mainnet"}

\* the text is a numeral with exactly places digits after the point,
\* a space and the symbol
WellFormed(text, places, symbol) ==
  LET n == Len(text)
  IN /\ n >= places + 4
     /\ text[n] = symbol
     /\ text[n - 1] = " "
     /\ text[n - 2 - places] = "."
     /\ \A i \in 1..(n - 2) :
          i # n - 2 - places =>
            \E d \in 0..9 : text[i] = DigitChars[d + 1]
     /\ n - 3 - places > 1 => text[1] # "0"

\* the number of units of 10^-places the text stands for
Rendered(text, places) ==
  LET n == Len(text)
  IN ToNat([ i \in 1..(n - 3) |->
               CharDigit(text[IF i < n - 2 - places THEN i ELSE i + 1]) ])

\* the text stands for amount / 10^decimals rounded to the nearest
\* multiple of 10^-places
NearestTo(text, amount, decimals, places) ==
  LET raw == IF Len(amount) < decimals + 1
               THEN Rep(0, decimals + 1 - Len(amount)) \o amount
               ELSE amount
      cut == Len(raw) - (decimals - places)
      floor == ToNat(SubSeq(raw, 1, cut))
      below == SubSeq(raw, cut + 1, Len(raw))
      rest == \E i \in 2..Len(below) : below[i] # 0
  IN IF below[1] < 5 THEN Rendered(text, places) = floor
     ELSE IF below[1] > 5 \/ rest THEN Rendered(text, places) = floor + 1
     ELSE Rendered(text, places) \in {floor, floor + 1}

\* C23: for a token of at most 6 decimals the formatted amount is
\* amount / 10^decimals with exactly 2 digits after the point, followed by
\* the token symbol, and 100000000 of 6-decimal USDC is "100.00 USDC"; for
\* a token of 18 decimals and for an unknown token it has exactly 4 digits
\* after the point.
C23_AmountFormatting ==
  (call.fn = "get_formatted_amount" /\ call.done) =>
    /\ SixDecimals =>
         /\ WellFormed(returned.text, 2,
                       IF call.token_address.addr = "usdt_mainnet"
                         THEN "USDT" ELSE "USDC")
         /\ NearestTo(returned.text, StripZeros(call.amount), 6, 2)
    /\ ~SixDecimals =>
         /\ WellFormed(returned.text, 4,
                       IF call.token_address.addr = "dai_mainnet"
                         THEN "DAI" ELSE "TOKEN")
         /\ NearestTo(returned.text, StripZeros(call.amount), 18, 4)
    /\ (call.token_address.addr = "usdc_mainnet"
          /\ call.amount = <<1, 0, 0, 0, 0, 0, 0, 0, 0>>) =>
         returned.text = <<"1", "0", "0", ".", "0", "0", " ", "USDC">>

\* 9.99995... of an 18-decimal token, given by its checksum address, came
\* out as "10.0000 DAI"
C23_Witness ==
  /\ call.fn = "get_formatted_amount"
  /\ call.done
  /\ call.token_address = [ addr |-> "dai_mainnet", mixed |-> TRUE ]
  /\ call.amount = <<9, 9, 9, 9, 9>> \o <<5>> \o Rep(0, 13)
  /\ returned.text = <<"1", "0", ".", "0", "0", "0", "0", " ", "DAI">>

\* ------------------------------------------------------------------------
\* Properties of event ids
\* ------------------------------------------------------------------------
\* two characters that differ in case at most
SameLetter(a, b) ==
  \/ a = b
  \/ {a, b} = {"a", "A"}
  \/ {a, b} = {"p", "P"}

\* two texts that differ in case at most
SameIgnoringCase(x, y) ==
  /\ Len(x) = Len(y)
  /\ \A i \in 1..Len(x) : SameLetter(x[i], y[i])

\* text x occurs in text y, the case of x set aside
OccursIn(x, y) ==
  \E k \in 0..(Len(y) - Len(x)) :
    SameIgnoringCase(x, SubSeq(y, k + 1, k + Len(x)))

\* C24: two events get the same event id exactly when their transaction
\* hashes are equal up to case and their payment intent ids are equal,
\* whatever their other fields; the id starts with evt_ and contains the
\* transaction hash.
C24_EventIdDeterminedByHashAndIntent ==
  (call.fn = "get_event_id" /\ call.done) =>
    /\ returned.first = returned.second <=>
         /\ SameIgnoringCase(call.first.transaction_hash,
                             call.second.transaction_hash)
         /\ call.first.payment_intent_id = call.second.payment_intent_id
    /\ SubSeq(returned.first, 1, 4) = <<"e", "v", "t", "_">>
    /\ SubSeq(returned.second, 1, 4) = <<"e", "v", "t", "_">>
    /\ OccursIn(call.first.transaction_hash, returned.first)
    /\ OccursIn(call.second.transaction_hash, returned.second)

\* two events whose hashes differ in case only and whose amounts differ
\* got the same id
C24_Witness ==
  /\ call.fn = "get_event_id"
  /\ call.done
  /\ call.first.transaction_hash # call.second.transaction_hash
  /\ call.first.amount # call.second.amount
  /\ returned.first = returned.second

\* ------------------------------------------------------------------------
\* Properties of the rate limiter
\* ------------------------------------------------------------------------
\* number of sends that went to the bot API during ticks t .. t + n - 1
RECURSIVE SentIn(_, _)
SentIn(t, n) ==
  IF n = 0 \/ t > MaxClock THEN 0 ELSE sent[t] + SentIn(t + 1, n - 1)

\* number of recorded timestamps that lie in the trailing window
RECURSIVE InWindow(_, _)
InWindow(times, t) ==
  IF times = << >> THEN 0
  ELSE (IF t - Head(times) < Period THEN 1 ELSE 0) + InWindow(Tail(times), t)

\* C8: a send that arrives at capacity is delayed until the oldest
\* timestamp of the window has expired, and no more than RATE_LIMIT sends
\* go to the bot API within any window of RATE_PERIOD.
C8_RateLimitHeld ==
  /\ \A i \in 1..Len(waiters) : waiters[i].wake > waiters[i].now
  /\ \A t \in 0..MaxClock : SentIn(t, Period) <= RATE_LIMIT

\* C9: the capacity check and the append are one atomic decision, so the
\* timestamps recorded for the trailing window never number more than
\* RATE_LIMIT.
C9_WindowNeverOverfull ==
  InWindow(last_send_times, clock) <= RATE_LIMIT
====
